---- MODULE Spec2Model ----
(***************************************************************************)
(* State-machine model of the gym database backup workflow:                *)
(* BackupOrchestrator.executeBackup and the collaborators it drives        *)
(* (SupabaseBackupClient, DatabaseExporter, FileManager,                   *)
(* DriveUploaderOAuth, RetryHandler, EmailService).                        *)
(*                                                                         *)
(* One action per await point of executeBackup.  The outcome of every      *)
(* external call (database, Drive, SMTP, filesystem, clock) is an input    *)
(* drawn with \E from a small set.                                         *)
(*                                                                         *)
(* Spec               a run of executeBackup, then main's process.exit     *)
(* LiveSpec           Spec with every await settling (weak fairness)       *)
(* DriveSpec          a run of one format, every behaviour of Drive        *)
(* RetrySpec          one call of a RetryHandler method, attempt by attempt*)
(* ErrorHandlerSpec   calls of ErrorHandler.handleDatabaseError            *)
(* ErrorLogSpec       more handleDatabaseError calls than the log holds    *)
(* ShouldContinueSpec calls of ErrorHandler.shouldContinueOperation        *)
(* FileManagerSpec    createBackupFile followed by validateBackupFile      *)
(* FilenameSpec       pairs of FileManager.generateFilename calls          *)
(***************************************************************************)
EXTENDS Integers, Sequences, FiniteSets, TLC

\* ------------------------------------------------------------------ bounds
MaxFormats == 2      \* longest config.formats list explored
MaxAttempts == 3     \* largest maxAttempts passed to executeWithRetry directly
MaxCalls == 2        \* most handleDatabaseError calls explored

\* --------------------------------------------------------------- constants
Formats == {"sql", "json", "xlsx"}
FormatLists == UNION {[1..n -> Formats] : n \in 0..MaxFormats}

Min(a, b) == IF a <= b THEN a ELSE b

RECURSIVE Pow(_, _)
Pow(b, e) == IF e = 0 THEN 1 ELSE b * Pow(b, e - 1)

RECURSIVE SumSeq(_)
SumSeq(s) == IF s = <<>> THEN 0 ELSE Head(s) + SumSeq(Tail(s))

\* ------------------------------------------------------------------ errors
\* An error value: the keywords its lower-cased message contains, its code,
\* the HTTP status it carries (0 when it carries none) and the chain of
\* prefixes that rethrowing catch blocks have put in front of the message.
MkError(words, code, status) ==
  [prefix |-> <<>>, words |-> words, code |-> code, status |-> status]

\* throw new Error(`<p>: ${error.message}`): the message is kept inside the
\* new one, the code and the status are not carried over
Wrap(p, e) == [prefix |-> <<p>> \o e.prefix, words |-> e.words, code |-> "", status |-> 0]

NoError == MkError({}, "", 0)

\* throw new Error(`${operationName} failed after ${result.attempts} attempts:
\* ${result.error?.message}`)
FailedAfter(operationName, attempts, e) ==
  Wrap(operationName \o " failed after " \o ToString(attempts) \o " attempts", e)

ErrRateLimit == MkError({"rate limit"}, "", 429)
ErrNotFound == MkError({"not found"}, "", 404)
ErrApiKey == MkError({"api key"}, "", 401)
ErrNoEntry == MkError({"no such file"}, "ENOENT", 0)
ErrSizeMismatch == MkError({"size mismatch"}, "", 0)
ErrNoTokens == MkError({"oauth tokens not found"}, "", 0)
ErrNoOAuthClient == MkError({"oauth client not initialized"}, "", 0)
ErrNoCredentials == MkError({"email credentials not found"}, "", 0)
ErrNoTransporter == MkError({"email service not initialized"}, "", 0)
ErrSmtp == MkError({"smtp"}, "", 0)
ErrSerialize == MkError({"serialize"}, "", 0)
ErrDiskFull == MkError({"no space left"}, "ENOSPC", 0)
ErrTimeoutKeyword == MkError({"timeout"}, "", 0)
ErrTooManyRequests == MkError({"Too Many Requests"}, "", 429)
ErrConnectionReset == MkError({}, "ECONNRESET", 0)
ErrAuthOverConnection == MkError({"authentication", "connection"}, "", 0)

\* message.toLowerCase() of the phrases that are not written in lower case
Lower(w) == IF w = "Too Many Requests" THEN "too many requests" ELSE w

\* message.includes(keyword): a keyword is found in a message that contains
\* it or a longer word it is part of
Longer(k) ==
  CASE k = "connect" -> {"connect", "connection", "disconnected"}
    [] k = "connection" -> {"connection"}
    [] k = "authentication" -> {"authentication", "authentication failed"}
    [] k = "token" -> {"token", "oauth tokens not found"}
    [] k = "too many" -> {"too many", "too many requests"}
    [] OTHER -> {k}

\* lowerMessage.includes(k)
Includes(e, k) == {Lower(w) : w \in e.words} \cap Longer(k) # {}

\* errorMessage.includes(k), the message taken as it is written
IncludesCased(e, k) == e.words \cap Longer(k) # {}

IncludesAny(e, ks) == \E k \in ks : Includes(e, k)

\* ============================================================ ErrorHandler
IsConnectionError(e) ==
  \/ IncludesAny(e, {"connection", "connect", "network", "dns", "host", "unreachable",
                     "refused", "reset", "closed", "disconnected", "offline"})
  \/ e.code \in {"ECONNRESET", "ENOTFOUND", "ECONNREFUSED", "ENETUNREACH"}

IsAuthenticationError(e) ==
  \/ IncludesAny(e, {"authentication", "unauthorized", "invalid credentials", "api key",
                     "token", "expired", "invalid jwt", "authentication failed"})
  \/ e.status \in {401, 403}

IsPermissionError(e) ==
  \/ IncludesAny(e, {"permission denied", "forbidden", "access denied",
                     "insufficient privileges", "not authorized", "rls",
                     "row level security", "policy"})
  \/ e.status = 403

IsTimeoutError(e) ==
  \/ IncludesAny(e, {"timeout", "timed out", "time limit", "deadline"})
  \/ e.code \in {"ETIMEDOUT"}

IsRateLimitError(e) ==
  \/ IncludesAny(e, {"rate limit", "too many requests", "quota exceeded", "limit exceeded"})
  \/ e.status = 429

IsDataError(e) ==
  IncludesAny(e, {"invalid data", "constraint", "foreign key", "unique", "null value",
                  "data type", "invalid input", "syntax error", "relation does not exist"})

\* the permission test made before the authentication test
ClassifyError_PermissionFirst(e) ==
  IF IsConnectionError(e)
  THEN [type |-> "CONNECTION_ERROR", severity |-> "HIGH", retryable |-> TRUE]
  ELSE IF IsPermissionError(e)
  THEN [type |-> "PERMISSION_ERROR", severity |-> "HIGH", retryable |-> FALSE]
  ELSE IF IsAuthenticationError(e)
  THEN [type |-> "AUTHENTICATION_ERROR", severity |-> "CRITICAL", retryable |-> FALSE]
  ELSE IF IsTimeoutError(e)
  THEN [type |-> "TIMEOUT_ERROR", severity |-> "MEDIUM", retryable |-> TRUE]
  ELSE IF IsRateLimitError(e)
  THEN [type |-> "RATE_LIMIT_ERROR", severity |-> "MEDIUM", retryable |-> TRUE]
  ELSE IF IsDataError(e)
  THEN [type |-> "DATA_ERROR", severity |-> "LOW", retryable |-> FALSE]
  ELSE [type |-> "UNKNOWN_ERROR", severity |-> "MEDIUM", retryable |-> FALSE]

\* the timeout branch leaving severity and retryable at their defaults
ClassifyError_TimeoutDefaults(e) ==
  IF IsConnectionError(e)
  THEN [type |-> "CONNECTION_ERROR", severity |-> "HIGH", retryable |-> TRUE]
  ELSE IF IsAuthenticationError(e)
  THEN [type |-> "AUTHENTICATION_ERROR", severity |-> "CRITICAL", retryable |-> FALSE]
  ELSE IF IsPermissionError(e)
  THEN [type |-> "PERMISSION_ERROR", severity |-> "HIGH", retryable |-> FALSE]
  ELSE IF IsTimeoutError(e)
  THEN [type |-> "TIMEOUT_ERROR", severity |-> "MEDIUM", retryable |-> FALSE]
  ELSE IF IsRateLimitError(e)
  THEN [type |-> "RATE_LIMIT_ERROR", severity |-> "MEDIUM", retryable |-> TRUE]
  ELSE IF IsDataError(e)
  THEN [type |-> "DATA_ERROR", severity |-> "LOW", retryable |-> FALSE]
  ELSE [type |-> "UNKNOWN_ERROR", severity |-> "MEDIUM", retryable |-> FALSE]

\* lines 64-157: the chain of tests, first match wins
ClassifyError(e) ==
  IF IsConnectionError(e)
  THEN [type |-> "CONNECTION_ERROR", severity |-> "HIGH", retryable |-> TRUE]
  ELSE IF IsAuthenticationError(e)
  THEN [type |-> "AUTHENTICATION_ERROR", severity |-> "CRITICAL", retryable |-> FALSE]
  ELSE IF IsPermissionError(e)
  THEN [type |-> "PERMISSION_ERROR", severity |-> "HIGH", retryable |-> FALSE]
  ELSE IF IsTimeoutError(e)
  THEN [type |-> "TIMEOUT_ERROR", severity |-> "MEDIUM", retryable |-> TRUE]
  ELSE IF IsRateLimitError(e)
  THEN [type |-> "RATE_LIMIT_ERROR", severity |-> "MEDIUM", retryable |-> TRUE]
  ELSE IF IsDataError(e)
  THEN [type |-> "DATA_ERROR", severity |-> "LOW", retryable |-> FALSE]
  ELSE [type |-> "UNKNOWN_ERROR", severity |-> "MEDIUM", retryable |-> FALSE]

\* logError keeps the last ErrorLogLimit entries
ErrorLogLimit == 100

\* the first ErrorLogLimit entries kept
LogError_KeepsFirst(errLog, b) ==
  LET l == Append(errLog, b)
  IN IF Len(l) > ErrorLogLimit
     THEN SubSeq(l, 1, ErrorLogLimit)
     ELSE l

\* lines 246-253
LogError(errLog, b) ==
  LET l == Append(errLog, b)
  IN IF Len(l) > ErrorLogLimit
     THEN SubSeq(l, Len(l) - ErrorLogLimit + 1, Len(l))
     ELSE l

\* the severity test alone
ShouldContinueOperation_SeverityOnly(b) ==
  IF b.severity = "CRITICAL" THEN FALSE
  ELSE TRUE

\* lines 303-317
ShouldContinueOperation(b) ==
  IF b.severity = "CRITICAL" THEN FALSE
  ELSE IF b.type \in {"AUTHENTICATION_ERROR", "PERMISSION_ERROR"} THEN FALSE
  ELSE TRUE

\* ============================================================ RetryHandler
\* retryGoogleDriveOperation's options
DriveRetryOptions ==
  [maxAttempts |-> 4, baseDelay |-> 1000, maxDelay |-> 20000, exponentialBase |-> 2,
   retryCondition |-> "drive"]

\* defaultOptions, with the maxAttempts the caller passes
DefaultOptions(maxAttempts) ==
  [maxAttempts |-> maxAttempts, baseDelay |-> 1000, maxDelay |-> 30000,
   exponentialBase |-> 2, retryCondition |-> "default"]

\* retryDatabaseOperation's options
DatabaseRetryOptions ==
  [maxAttempts |-> 3, baseDelay |-> 2000, maxDelay |-> 15000, exponentialBase |-> 2,
   retryCondition |-> "database"]

\* retryEmailOperation's options
EmailRetryOptions ==
  [maxAttempts |-> 3, baseDelay |-> 3000, maxDelay |-> 10000, exponentialBase |-> 2,
   retryCondition |-> "email"]

DefaultRetryCondition(e) ==
  \/ \E k \in {"Network request failed", "timeout", "Too Many Requests",
                "Service Temporarily Unavailable", "Internal Server Error"} :
        IncludesCased(e, k)
  \/ e.code \in {"ECONNRESET", "ENOTFOUND", "ECONNREFUSED", "ETIMEDOUT"}

DatabaseRetryCondition(e) ==
  IncludesAny(e, {"connection", "timeout", "network", "unavailable", "too many",
                  "rate limit", "temporary", "socket", "reset"})

\* the transient keywords looked for first
EmailRetryCondition_TransientFirst(e) ==
  IF IncludesAny(e, {"connection", "timeout", "network", "temporarily", "rate limit",
                     "server busy", "try again"})
  THEN TRUE
  ELSE FALSE

\* the authentication keywords are looked for before the transient ones
EmailRetryCondition(e) ==
  IF IncludesAny(e, {"authentication", "invalid credentials", "unauthorized", "forbidden"})
  THEN FALSE
  ELSE IncludesAny(e, {"connection", "timeout", "network", "temporarily", "rate limit",
                       "server busy", "try again"})

DriveRetryCondition(e) ==
  \/ IncludesAny(e, {"rate limit", "quota exceeded", "backend error",
                     "internal error", "unavailable", "timeout", "network"})
  \/ e.status \in {429, 500, 502, 503, 504}

\* config.retryCondition(error): the options carry the name of their predicate
RetryCondition(opts, e) ==
  CASE opts.retryCondition = "default" -> DefaultRetryCondition(e)
    [] opts.retryCondition = "database" -> DatabaseRetryCondition(e)
    [] opts.retryCondition = "drive" -> DriveRetryCondition(e)
    [] opts.retryCondition = "email" -> EmailRetryCondition(e)

\* outcome of the a-th invocation of the operation: NoError is a success; an
\* operation keeps its last listed outcome when it is invoked more often
OutcomeAt(outcomes, a) ==
  IF a <= Len(outcomes) THEN outcomes[a] ELSE outcomes[Len(outcomes)]

\* the delay left to grow past maxDelay
BackoffDelay_Uncapped(opts, attempt) ==
  opts.baseDelay * Pow(opts.exponentialBase, attempt - 1)

\* the exponent taken from the attempt number itself
BackoffDelay_FromAttempt(opts, attempt) ==
  Min(opts.baseDelay * Pow(opts.exponentialBase, attempt), opts.maxDelay)

\* lines 99-102: Math.min(baseDelay * Math.pow(exponentialBase, attempt - 1), maxDelay)
BackoffDelay(opts, attempt) ==
  Min(opts.baseDelay * Pow(opts.exponentialBase, attempt - 1), opts.maxDelay)

\* an attempt that consumed the last of the allowed attempts
LastAttempt_OneEarly(opts, attempt) == attempt + 1 >= opts.maxAttempts

\* line 93: if (attempt === config.maxAttempts)
LastAttempt(opts, attempt) == attempt = opts.maxAttempts

RECURSIVE RetryLoop(_, _, _, _, _)
RetryLoop(outcomes, opts, attempt, lastError, delays) ==
  IF ~(attempt < opts.maxAttempts)
  THEN [success |-> FALSE, error |-> lastError, attempts |-> attempt, delays |-> delays]
  ELSE LET a == attempt + 1
           o == OutcomeAt(outcomes, a)
       IN IF o = NoError
          THEN [success |-> TRUE, error |-> NoError, attempts |-> a, delays |-> delays]
          ELSE IF ~RetryCondition(opts, o)
          THEN [success |-> FALSE, error |-> o, attempts |-> a, delays |-> delays]
          ELSE IF LastAttempt(opts, a)
          THEN [success |-> FALSE, error |-> o, attempts |-> a, delays |-> delays]
          ELSE RetryLoop(outcomes, opts, a, o,
                         Append(delays, BackoffDelay(opts, a)))

ExecuteWithRetry(outcomes, opts) ==
  RetryLoop(outcomes, opts, 0, NoError, <<>>)

\* result.success ? result.result : throw "<name> failed after <n> attempts"
RetryGoogleDriveOperation(outcomes, operationName) ==
  LET r == ExecuteWithRetry(outcomes, DriveRetryOptions)
  IN [ok |-> r.success,
      error |-> IF r.success THEN NoError
                ELSE FailedAfter(operationName, r.attempts, r.error),
      attempts |-> r.attempts,
      delays |-> r.delays]

\* ============================================================= FileManager
\* formatDate(new Date(), timestampFormat): an instant is a second and the
\* millisecond within it; the pattern decides which of the two are printed
FormatDate(instant, timestampFormat) ==
  IF timestampFormat = "yyyy-MM-dd_HH-mm-ss" THEN <<instant.s>>
  ELSE <<instant.s, instant.ms>>

\* lines 403-409
DefaultNamingOptions ==
  [includeTimestamp |-> TRUE, includeFormat |-> TRUE, includeCompression |-> TRUE,
   timestampFormat |-> "yyyy-MM-dd_HH-mm-ss", separator |-> "_"]

\* the timestamp printed to the millisecond whatever the pattern is
GenerateFilename_Milliseconds(baseName, format, options, compressed, instant) ==
  LET ts == IF options.includeTimestamp THEN <<instant.s, instant.ms>> ELSE <<>>
      tag == options.includeCompression /\ compressed
  IN [base |-> baseName, ts |-> ts, format |-> format,
      formatPart |-> options.includeFormat, tag |-> tag,
      separator |-> IF ts # <<>> \/ options.includeFormat \/ tag
                    THEN options.separator ELSE "",
      gz |-> compressed]

\* generateFilename, lines 420-457: the parts (base name, timestamp, format,
\* 'compressed') joined by the separator, then the extension .<format> and
\* .gz for a compressed file. The separator shows when there are two parts
GenerateFilename(baseName, format, options, compressed, instant) ==
  LET ts == IF options.includeTimestamp
            THEN FormatDate(instant, options.timestampFormat) ELSE <<>>
      tag == options.includeCompression /\ compressed
  IN [base |-> baseName, ts |-> ts, format |-> format,
      formatPart |-> options.includeFormat, tag |-> tag,
      separator |-> IF ts # <<>> \/ options.includeFormat \/ tag
                    THEN options.separator ELSE "",
      gz |-> compressed]

NoFile ==
  [base |-> "", ts |-> <<>>, format |-> "", formatPart |-> FALSE, tag |-> FALSE,
   separator |-> "", gz |-> FALSE]

\* compressContent, lines 462-532: the bytes returned, told by how they are
\* encoded, what they encode and how many they are. zlib.gzip and
\* zlib.deflate wrap the same deflate stream in different headers
CompressContent(content, options) ==
  IF ~options.enabled
  THEN [compressed |-> [encoding |-> "raw", of |-> content, length |-> content.raw],
        originalSize |-> content.raw, compressedSize |-> content.raw]
  ELSE IF options.algorithm = "gzip"
  THEN [compressed |-> [encoding |-> "gzip", of |-> content, length |-> content.gz],
        originalSize |-> content.raw, compressedSize |-> content.gz]
  ELSE [compressed |-> [encoding |-> "deflate", of |-> content,
                        length |-> content.deflate],
        originalSize |-> content.raw, compressedSize |-> content.deflate]

\* decompressContent, lines 537-571: gunzip and inflate each reject the
\* other's header ('incorrect header check') and uncompressed bytes
DecompressContent(bytes, algorithm) ==
  IF bytes.encoding = algorithm
  THEN [ok |-> TRUE, decompressed |-> bytes.of.raw]
  ELSE [ok |-> FALSE, decompressed |-> 0]

\* calculateChecksum, lines 576-579: the digest of the bytes
CalculateChecksum(bytes) == <<"sha256", bytes.encoding, bytes.of, bytes.length>>

\* createBackupFile, lines 589-632: the content returned and its metadata
CreateBackupFile(content, baseName, format, compressionOptions, namingOptions, instant) ==
  LET c == CompressContent(content, compressionOptions)
  IN [content |-> c.compressed,
      filename |-> GenerateFilename(baseName, format, namingOptions,
                                    compressionOptions.enabled, instant),
      originalSize |-> c.originalSize,
      checksum |-> CalculateChecksum(c.compressed),
      compressed |-> compressionOptions.enabled,
      compressedSize |-> IF compressionOptions.enabled THEN c.compressedSize ELSE 0,
      length |-> c.compressed.length]

\* validateBackupFile, lines 717-761: decompressContent is called without an
\* algorithm, so with its default 'gzip'
ValidateBackupFile(bytes, metadata) ==
  LET expectedSize == IF metadata.compressed THEN metadata.compressedSize
                      ELSE metadata.originalSize
      errs ==
        (IF CalculateChecksum(bytes) # metadata.checksum
         THEN <<"Checksum verification failed - file may be corrupted">> ELSE <<>>)
        \o (IF expectedSize # 0 /\ bytes.length # expectedSize
            THEN <<"File size mismatch">> ELSE <<>>)
        \o (IF metadata.compressed /\ ~DecompressContent(bytes, "gzip").ok
            THEN <<"Decompression test failed">> ELSE <<>>)
  IN [valid |-> errs = <<>>, errors |-> errs]

\* the byte length of a format's export, of its gzip and of its deflate
\* compression
ContentOf(format) ==
  CASE format = "sql" -> [raw |-> 8, gz |-> 3, deflate |-> 2]
    [] format = "json" -> [raw |-> 6, gz |-> 2, deflate |-> 1]
    [] format = "xlsx" -> [raw |-> 4, gz |-> 5, deflate |-> 4]


\* ============================================================ EmailService
\* the NotificationOptions explored: recipients is the length of the list
AllOn == [sendOnSuccess |-> TRUE, sendOnFailure |-> TRUE, sendOnPartial |-> TRUE,
          recipients |-> 1]

NotificationOptions ==
  { AllOn,
    [AllOn EXCEPT !.recipients = 0],
    [AllOn EXCEPT !.sendOnSuccess = FALSE],
    [AllOn EXCEPT !.sendOnFailure = FALSE],
    [AllOn EXCEPT !.sendOnPartial = FALSE] }

\* sendEmail handing the mail to sendMail without looking at the transporter
SendEmail_NoGuard(hasTransporter, smtp) ==
  IF smtp # NoError THEN [sent |-> FALSE, error |-> Wrap("Email sending failed", smtp)]
  ELSE [sent |-> TRUE, error |-> NoError]

\* sendEmail: throws before sending when the transporter is missing, and
\* rethrows a failure of transporter.sendMail
SendEmail(hasTransporter, smtp) ==
  IF ~hasTransporter THEN [sent |-> FALSE, error |-> ErrNoTransporter]
  ELSE IF smtp # NoError THEN [sent |-> FALSE, error |-> Wrap("Email sending failed", smtp)]
  ELSE [sent |-> TRUE, error |-> NoError]

\* send<Status>Notification: return at once when the status's switch is off
SendStatusNotification(enabled, hasTransporter, smtp) ==
  IF ~enabled THEN [sent |-> FALSE, error |-> NoError]
  ELSE SendEmail(hasTransporter, smtp)

SendSuccessNotification(options, hasTransporter, smtp) ==
  SendStatusNotification(options.sendOnSuccess, hasTransporter, smtp)

SendFailureNotification(options, hasTransporter, smtp) ==
  SendStatusNotification(options.sendOnFailure, hasTransporter, smtp)

SendPartialNotification(options, hasTransporter, smtp) ==
  SendStatusNotification(options.sendOnPartial, hasTransporter, smtp)

\* ====================================================== BackupOrchestrator
\* retryAttempts: parseInt(process.env.RETRY_ATTEMPTS || '3')
BackupConfigs ==
  [formats : FormatLists, compression : BOOLEAN, notifications : NotificationOptions,
   retryAttempts : {1, 3}]

\* the partial and failure cases of the switch exchanged
NotifierMethod_Swapped(status) ==
  CASE status = "success" -> "sendSuccessNotification"
    [] status = "partial" -> "sendFailureNotification"
    [] status = "failure" -> "sendPartialNotification"

\* the switch of sendNotifications: which EmailService method a status selects
NotifierMethod(status) ==
  CASE status = "success" -> "sendSuccessNotification"
    [] status = "partial" -> "sendPartialNotification"
    [] status = "failure" -> "sendFailureNotification"

\* sendNotifications without its catch block
SendNotifications_NoCatch(status, options, hasTransporter, smtp) ==
  IF options.recipients = 0
  THEN [calls |-> <<>>, sent |-> FALSE, logged |-> NoError, thrown |-> NoError]
  ELSE LET r == SendStatusNotification(
                  CASE status = "success" -> options.sendOnSuccess
                    [] status = "partial" -> options.sendOnPartial
                    [] status = "failure" -> options.sendOnFailure,
                  hasTransporter, smtp)
       IN [calls |-> <<CASE status = "success" -> "sendSuccessNotification"
                         [] status = "partial" -> "sendPartialNotification"
                         [] status = "failure" -> "sendFailureNotification">>,
           sent |-> r.sent, logged |-> NoError, thrown |-> r.error]

\* sendNotifications: the methods invoked, whether a mail went out, the error
\* the catch block logged, and the error that leaves the function
SendNotifications(status, options, hasTransporter, smtp) ==
  IF options.recipients = 0
  THEN [calls |-> <<>>, sent |-> FALSE, logged |-> NoError, thrown |-> NoError]
  ELSE LET m == NotifierMethod(status)
           r == CASE m = "sendSuccessNotification" ->
                       SendSuccessNotification(options, hasTransporter, smtp)
                  [] m = "sendPartialNotification" ->
                       SendPartialNotification(options, hasTransporter, smtp)
                  [] m = "sendFailureNotification" ->
                       SendFailureNotification(options, hasTransporter, smtp)
       IN [calls |-> <<m>>, sent |-> r.sent, logged |-> r.error,
           thrown |-> NoError]

\* the two tests of the status derivation in the other order
DetermineStatus_ZeroFirst(successfulUploads, failedUploads) ==
  IF successfulUploads = 0 THEN "failure"
  ELSE IF failedUploads = 0 THEN "success"
  ELSE "partial"

\* lines 119-127
DetermineStatus(successfulUploads, failedUploads) ==
  IF failedUploads = 0 THEN "success"
  ELSE IF successfulUploads = 0 THEN "failure"
  ELSE "partial"

\* a failed upload labelled 'failure', which no counter looks for
ProcessFileResults_Label(exports, uploads) ==
  [i \in 1..Min(Len(exports), Len(uploads)) |->
     [filename |-> exports[i].filename,
      format |-> exports[i].format,
      size |-> exports[i].size,
      compressed |-> exports[i].compressed,
      uploadStatus |-> IF uploads[i].success THEN "success" ELSE "failure",
      driveUrl |-> uploads[i].success,
      error |-> uploads[i].error]]

\* lines 86-105: one fileResults entry per export result that has an upload result
ProcessFileResults(exports, uploads) ==
  [i \in 1..Min(Len(exports), Len(uploads)) |->
     [filename |-> exports[i].filename,
      format |-> exports[i].format,
      size |-> exports[i].size,
      compressed |-> exports[i].compressed,
      uploadStatus |-> IF uploads[i].success THEN "success" ELSE "failed",
      driveUrl |-> uploads[i].success,
      error |-> uploads[i].error]]

UploadErrorEntry(filename, e) ==
  [file |-> filename, error |-> Wrap("Upload failed for", e)]

\* the entry of a failed upload put before those of the earlier files
RECURSIVE ProcessErrors_LastFirst(_, _, _)
ProcessErrors_LastFirst(exports, uploads, i) ==
  IF i > Min(Len(exports), Len(uploads)) THEN <<>>
  ELSE ProcessErrors_LastFirst(exports, uploads, i + 1) \o
       (IF ~uploads[i].success /\ uploads[i].error # NoError
        THEN <<UploadErrorEntry(exports[i].filename, uploads[i].error)>>
        ELSE <<>>)

\* lines 85-104: the errors pushed while the results are processed
RECURSIVE ProcessErrors(_, _, _)
ProcessErrors(exports, uploads, i) ==
  IF i > Min(Len(exports), Len(uploads)) THEN <<>>
  ELSE (IF ~uploads[i].success /\ uploads[i].error # NoError
        THEN <<UploadErrorEntry(exports[i].filename, uploads[i].error)>>
        ELSE <<>>) \o ProcessErrors(exports, uploads, i + 1)

CountStatus(files, s) == Len(SelectSeq(files, LAMBDA f : f.uploadStatus = s))

TotalSize(exports) == SumSeq([i \in 1..Len(exports) |-> exports[i].size])

CompressedSize(exports) ==
  SumSeq([i \in 1..Len(exports) |->
            IF exports[i].compressedSize # 0 THEN exports[i].compressedSize
            ELSE exports[i].size])

\* the quotient taken without the test for an empty total
CompressionRatio_Unguarded(total, compressed) == <<total, compressed>>

\* a quotient is kept as the pair <<numerator, denominator>>
CompressionRatio(total, compressed) ==
  IF total > 0 THEN <<total, compressed>> ELSE <<1, 1>>

\* lines 107-142
BuildSummary(exports, files, errs) ==
  LET successfulUploads == CountStatus(files, "success")
      failedUploads == CountStatus(files, "failed")
  IN [status |-> DetermineStatus(successfulUploads, failedUploads),
      totalFiles |-> Len(files),
      successfulUploads |-> successfulUploads,
      failedUploads |-> failedUploads,
      totalSize |-> TotalSize(exports),
      compressedSize |-> CompressedSize(exports),
      compressionRatio |-> CompressionRatio(TotalSize(exports), CompressedSize(exports)),
      files |-> files,
      errors |-> errs]

\* lines 169-183
FailureSummary(errs) ==
  [status |-> "failure", totalFiles |-> 0, successfulUploads |-> 0,
   failedUploads |-> 0, totalSize |-> 0, compressedSize |-> 0,
   compressionRatio |-> <<1, 1>>, files |-> <<>>, errors |-> errs]

NoSummary ==
  [status |-> "none", totalFiles |-> 0, successfulUploads |-> 0,
   failedUploads |-> 0, totalSize |-> 0, compressedSize |-> 0,
   compressionRatio |-> <<1, 1>>, files |-> <<>>, errors |-> <<>>]

NoResult == [returned |-> FALSE, success |-> FALSE, summary |-> NoSummary, errors |-> <<>>]


\* ------------------------------------------------------ DriveUploaderOAuth
\* the verification satisfied as soon as files.get answers
VerifyUpload_SizeUnchecked(remote, actualSize, expectedSize) ==
  IF remote # NoError THEN Wrap("Upload verification failed", remote)
  ELSE NoError

\* verifyUpload: throws when files.get fails or the sizes differ
VerifyUpload(remote, actualSize, expectedSize) ==
  IF remote # NoError THEN Wrap("Upload verification failed", remote)
  ELSE IF actualSize # expectedSize
  THEN Wrap("Upload verification failed", ErrSizeMismatch)
  ELSE NoError

\* uploadFile: u.folder and u.create list the outcomes of the successive
\* invocations of the retried folder and files.create operations, u.remote is
\* the outcome of the files.get of the verification and u.delta the
\* difference between the remote size and the local byte length
\* options.retryAttempts is merged into the method's config and never read:
\* the retried operations run under retryGoogleDriveOperation's own maxAttempts
DriveUploadFile(u, hasClient, length, options) ==
  IF ~hasClient THEN [ok |-> FALSE, error |-> ErrNoOAuthClient, attempts |-> 0]
  ELSE LET folder == IF options.createDateFolders
                     THEN RetryGoogleDriveOperation(u.folder, "Create year folder")
                     ELSE [ok |-> TRUE, error |-> NoError, attempts |-> 0]
           create == RetryGoogleDriveOperation(u.create, "Upload file")
           verify == IF options.verifyUpload
                     THEN VerifyUpload(u.remote, length + u.delta, length)
                     ELSE NoError
       IN IF ~folder.ok
          THEN [ok |-> FALSE, attempts |-> 0,
                error |-> Wrap("Upload failed",
                               Wrap("Folder structure creation failed", folder.error))]
          ELSE IF ~create.ok
          THEN [ok |-> FALSE, attempts |-> create.attempts,
                error |-> Wrap("Upload failed", create.error)]
          ELSE IF verify # NoError
          THEN [ok |-> FALSE, attempts |-> create.attempts,
                error |-> Wrap("Upload failed", verify)]
          ELSE [ok |-> TRUE, attempts |-> create.attempts, error |-> NoError]

\* part_002 lines 380-384: the uploadOptions of uploadFiles
UploadOptions(c) ==
  [createDateFolders |-> TRUE, retryAttempts |-> c.retryAttempts, verifyUpload |-> TRUE]

UploadOk ==
  [read |-> NoError, folder |-> <<NoError>>, create |-> <<NoError>>,
   remote |-> NoError, delta |-> 0]

\* the behaviours of the filesystem and of Drive explored for one upload
UploadScenarios ==
  { UploadOk,
    [UploadOk EXCEPT !.read = ErrNoEntry],
    [UploadOk EXCEPT !.create = <<ErrRateLimit>>],
    [UploadOk EXCEPT !.delta = 1] }

\* every combination of the outcomes of readFile, of the folder calls, of the
\* successive files.create calls and of the files.get of the verification
DriveScenarios ==
  [read : {NoError, ErrNoEntry},
   folder : {<<NoError>>, <<ErrNotFound>>},
   create : {<<NoError>>, <<ErrRateLimit, NoError>>, <<ErrRateLimit>>, <<ErrNotFound>>},
   remote : {NoError, ErrNotFound},
   delta : {0 - 1, 0, 1}]

\* what the log of external calls shows of one uploadFile call: whether the
\* retried files.create ended well, and what the verification found
DriveEvents(u, hasClient, options, i) ==
  IF ~hasClient \/ u.read # NoError THEN <<>>
  ELSE IF options.createDateFolders
          /\ ~RetryGoogleDriveOperation(u.folder, "Create year folder").ok
  THEN <<>>
  ELSE IF ~RetryGoogleDriveOperation(u.create, "Upload file").ok
  THEN <<[ev |-> "files.create_failed", i |-> i]>>
  ELSE <<[ev |-> "files.create_ok", i |-> i],
         [ev |-> IF u.remote # NoError THEN "files.get_failed"
                 ELSE IF u.delta # 0 THEN "size_mismatch"
                 ELSE "size_match",
          i |-> i]>>

\* --------------------------------------------------- SupabaseBackupClient
\* what the database answers to the three discovery methods
DbUp == [rpc |-> NoError, openapi |-> NoError, probe |-> NoError]

DbStates ==
  { DbUp, [rpc |-> ErrApiKey, openapi |-> ErrApiKey, probe |-> ErrApiKey] }

\* getAllTableNames: every failure is swallowed; the hard-coded list is
\* returned when no discovery method finds a table
GetAllTableNames(d) ==
  IF d.rpc = NoError THEN [error |-> NoError, source |-> "rpc"]
  ELSE IF d.openapi = NoError THEN [error |-> NoError, source |-> "openapi"]
  ELSE IF d.probe = NoError THEN [error |-> NoError, source |-> "manual"]
  ELSE [error |-> NoError, source |-> "fallback"]

\* errors a per-table database call can end with, after its retries
TableErrors == {NoError, FailedAfter("Get Table Data", 1, ErrApiKey),
                FailedAfter("Get Table Data", 1, ErrNotFound)}

\* the tables of the database during a run: what the per-table calls of
\* discoverDatabase end with, and what those of the export loops end with
TablesSound == [discovery |-> NoError, export |-> NoError]

TableStates == [discovery : TableErrors, export : TableErrors]

\* what the log of external calls shows of a failed per-table call
TableFailure(e) ==
  IF Includes(e, "api key") THEN "table_call_unauthorized" ELSE "table_call_failed"

\* the per-table catch blocks of discoverDatabase and exportAllTableData:
\* the error that leaves the loop
TableLoop(e) ==
  IF e = NoError THEN NoError
  ELSE IF ShouldContinueOperation(ClassifyError(e)) THEN NoError
  ELSE e


\* ------------------------------------------------------- DatabaseExporter
\* what one format's export step meets: the outcome of the per-table
\* database calls (set from the state of the tables), of the serializer, of
\* compressContent and of saveToLocal
ExportOk == [table |-> NoError, gen |-> NoError, pack |-> NoError, save |-> NoError]

ExportScenarios ==
  { ExportOk,
    [ExportOk EXCEPT !.gen = ErrSerialize],
    [ExportOk EXCEPT !.pack = ErrSerialize],
    [ExportOk EXCEPT !.save = ErrDiskFull] }

\* format.toUpperCase()
ToUpperCase(format) ==
  CASE format = "sql" -> "SQL"
    [] format = "json" -> "JSON"
    [] format = "xlsx" -> "XLSX"

\* lines 263-298 of exportData: the sql dump swallows every per-table
\* failure, json and xlsx fetch the rows through exportAllTableData first
GenerateContent(format, x) ==
  IF format = "sql" THEN x.gen
  ELSE IF TableLoop(x.table) # NoError THEN TableLoop(x.table)
  ELSE x.gen

\* a failed write of the file logged and not rethrown
ExportFormatError_SaveSwallowed(format, x) ==
  LET e == IF GenerateContent(format, x) # NoError THEN GenerateContent(format, x)
           ELSE IF x.pack # NoError THEN x.pack
           ELSE NoError
  IN IF e = NoError THEN NoError ELSE Wrap(ToUpperCase(format) \o " export failed", e)

\* lines 300-345 of exportData: the error thrown for this format, if any
ExportFormatError(format, x) ==
  LET e == IF GenerateContent(format, x) # NoError THEN GenerateContent(format, x)
           ELSE IF x.pack # NoError THEN x.pack
           ELSE IF x.save # NoError THEN Wrap("Failed to save file", x.save)
           ELSE NoError
  IN IF e = NoError THEN NoError ELSE Wrap(ToUpperCase(format) \o " export failed", e)

\* every format compressed when config.compression is set
ExportResult_EveryFormat(format, compression, content, t) ==
  LET shouldCompress == compression
      f == CreateBackupFile(content, "gym_database_backup", format,
                            [enabled |-> shouldCompress, level |-> 6,
                             algorithm |-> "gzip"],
                            [DefaultNamingOptions EXCEPT
                               !.includeCompression = shouldCompress],
                            [s |-> t, ms |-> 0])
  IN [filename |-> f.filename, filePath |-> f.filename, format |-> format,
      size |-> f.originalSize, compressed |-> f.compressed,
      compressedSize |-> f.compressedSize, length |-> f.length]

\* lines 300-336 of exportData: the FileExportResult of a format
ExportResult(format, compression, content, t) ==
  LET shouldCompress == compression /\ format # "xlsx"
      f == CreateBackupFile(content, "gym_database_backup", format,
                            [enabled |-> shouldCompress, level |-> 6,
                             algorithm |-> "gzip"],
                            [DefaultNamingOptions EXCEPT
                               !.includeCompression = shouldCompress],
                            [s |-> t, ms |-> 0])
  IN [filename |-> f.filename, filePath |-> f.filename, format |-> format,
      size |-> f.originalSize, compressed |-> f.compressed,
      compressedSize |-> f.compressedSize, length |-> f.length]

\* ------------------------------------------------------------------- state
VARIABLES
  pc,            \* the await point executeBackup is at
  config,        \* finalConfig
  now,           \* the second the run's files are named in
  dbCheck,       \* what the connectivity check of initializeServices met
  oAuth2Client,  \* DriveUploaderOAuth.oAuth2Client is set
  transporter,   \* EmailService.transporter and emailConfig are set
  disk,          \* the output directory: the path and byte length of each file
  results,       \* exportData's results
  exportResults, \* executeBackup's exportResults
  uploadResults, \* uploadFiles' results
  errors,        \* executeBackup's errors
  summary,       \* the BackupSummary built
  result,        \* the BackupResult returned
  thrown,        \* the error the catch block of executeBackup caught
  notified,      \* sendNotifications calls: status passed, methods invoked, mail sent
  unlinked,      \* the paths fs.unlink was called with, in order
  log,           \* the external calls made, in order
  tables,        \* what the per-table database calls of this run end with
  rpc,           \* where a call of a RetryHandler method is
  call,          \* that call: method, operationName, options, timeout wrapping
  attempt,       \* executeWithRetry's attempt
  lastError,     \* executeWithRetry's lastError
  invocations,   \* how many times operation() has been called
  running,       \* the invocations whose underlying operation has not settled
  outcomes,      \* what each attempt ended with, in order (NoError: resolved)
  timedOut,      \* the attempts that withTimeout's timer rejected
  sleeps,        \* the delays slept, in order
  retryResult,   \* the RetryResult of executeWithRetry
  surfaced,      \* the error the wrapper threw to its caller
  errorLog,      \* ErrorHandler.errorLog
  classified,    \* how many times handleDatabaseError has been called
  handled,       \* the last handleDatabaseError call: its input and what it did
  clearedAt,     \* the value of classified when clearErrorLog was last called
  asked,         \* the last shouldContinueOperation call: its argument and answer
  backupFile,    \* the last createBackupFile call: its arguments and its BackupFile
  validation,    \* the last validateBackupFile call: the file and the result
  filenames,     \* the last two generateFilename calls: arguments, instant, name
  exit           \* main's process.exit call: made or not, and the code passed

orchestrator == <<pc, config, now, dbCheck, oAuth2Client, transporter, disk, results,
                  exportResults, uploadResults, errors, summary, result, thrown,
                  notified, unlinked, log, exit, tables>>

retryHandler == <<rpc, call, attempt, lastError, invocations, running, outcomes,
                  timedOut, sleeps, retryResult, surfaced>>

errorHandler == <<errorLog, classified, handled, clearedAt, asked>>

fileManager == <<backupFile, validation, filenames>>

vars == <<orchestrator, retryHandler, errorHandler, fileManager>>

Event(ev, i) == [ev |-> ev, i |-> i]

\* no RetryHandler call has been made
NoCall ==
  [method |-> "none", operationName |-> "", options |-> DefaultOptions(0),
   timeout |-> FALSE, label |-> {}, errors |-> {}]

NoRetryResult == [success |-> FALSE, error |-> NoError, attempts |-> 0]

RetryFrame ==
  /\ attempt = 0
  /\ lastError = NoError
  /\ invocations = 0
  /\ running = {}
  /\ outcomes = <<>>
  /\ timedOut = {}
  /\ sleeps = <<>>
  /\ retryResult = NoRetryResult
  /\ surfaced = NoError

RetryOff == rpc = "off" /\ call = NoCall /\ RetryFrame

\* shouldContinueOperation has not been called
NoAsked == [called |-> FALSE, input |-> [shape |-> "none", error |-> NoError],
            error |-> [type |-> "", severity |-> "", retryable |-> FALSE],
            answer |-> FALSE]

NoCreated == [created |-> FALSE]

NoValidation == [validated |-> FALSE]

\* generateFilename has not been called
NoFilename ==
  [called |-> FALSE, baseName |-> "", format |-> "", options |-> DefaultNamingOptions,
   compressed |-> FALSE, instant |-> [s |-> 0, ms |-> 0], name |-> NoFile]

NoHandled == [input |-> [shape |-> "none", error |-> NoError], threw |-> FALSE,
              backupError |-> [type |-> "", severity |-> "", retryable |-> FALSE,
                               timestamp |-> 0]]

\* private static errorLog: BackupError[] = []
ErrorHandlerInit ==
  /\ errorLog = <<>>
  /\ classified = 0
  /\ handled = NoHandled
  /\ clearedAt = 0
  /\ asked = NoAsked

\* lines 60-62: the message, code and status classifyError reads
MessageRead(v) ==
  IF v.shape \in {"null", "undefined"} THEN MkError({}, "", 0) ELSE v.error

\* line 170: message.toLowerCase() is not a function
ToLowerCaseThrows(v) == v.shape = "message_not_a_string"

\* line 162: timestamp: new Date().toISOString(), here the number of the call
Stamped(b, t) ==
  [type |-> b.type, severity |-> b.severity, retryable |-> b.retryable, timestamp |-> t]

\* handleDatabaseError(v, operation), lines 37-54
HandleDatabaseErrorOf(v) ==
  /\ IF ToLowerCaseThrows(v)
     THEN /\ handled' = [input |-> v, threw |-> TRUE,
                         backupError |-> NoHandled.backupError]
          /\ UNCHANGED errorLog
     ELSE /\ handled' = [input |-> v, threw |-> FALSE,
                         backupError |-> Stamped(ClassifyError(MessageRead(v)),
                                                 classified + 1)]
          /\ errorLog' = LogError(errorLog, Stamped(ClassifyError(MessageRead(v)),
                                                   classified + 1))
  /\ classified' = classified + 1

\* no FileManager method has been called
FileManagerOff ==
  /\ backupFile = NoCreated
  /\ validation = NoValidation
  /\ filenames = [previous |-> NoFilename, last |-> NoFilename]

\* process.exit has not been called
NoExit == [exited |-> FALSE, code |-> 0]

\* the orchestrator's state before executeBackup has done anything
Fresh ==
  /\ now = 0
  /\ dbCheck = [checked |-> FALSE, db |-> DbUp]
  /\ oAuth2Client = FALSE
  /\ transporter = FALSE
  /\ disk = {}
  /\ results = <<>>
  /\ exportResults = <<>>
  /\ uploadResults = <<>>
  /\ errors = <<>>
  /\ summary = NoSummary
  /\ result = NoResult
  /\ thrown = NoError
  /\ notified = <<>>
  /\ unlinked = <<>>
  /\ log = <<>>
  /\ exit = NoExit

\* the runs explored: every configuration with the default retry count on a
\* database whose tables answer, and the compressing configurations that
\* notify of every status with any retry count on any state of the tables
BackupRuns ==
  { r \in [config : BackupConfigs, tables : TableStates] :
      \/ r.config.retryAttempts = 3 /\ r.tables = TablesSound
      \/ r.config.notifications = AllOn /\ r.config.compression }

Init ==
  /\ pc = "init_db"
  /\ \E r \in BackupRuns : config = r.config /\ tables = r.tables
  /\ Fresh
  /\ RetryOff
  /\ ErrorHandlerInit
  /\ FileManagerOff

\* the catch block counting the files exportData had written before it threw
Catch_ReportsArtifacts(e) ==
  LET errs == Append(errors, [file |-> NoFile, error |-> Wrap("Backup process failed", e)])
  IN /\ thrown' = e
     /\ errors' = errs
     /\ summary' = [FailureSummary(errs) EXCEPT !.totalFiles = Len(results),
                                                !.totalSize = TotalSize(results)]
     /\ pc' = "catch_notify"

\* lines 160-183: the catch block of executeBackup up to the notification
Catch(e) ==
  LET errs == Append(errors, [file |-> NoFile, error |-> Wrap("Backup process failed", e)])
  IN /\ thrown' = e
     /\ errors' = errs
     /\ summary' = FailureSummary(errs)
     /\ pc' = "catch_notify"

\* initializeServices logging the failure without rethrowing it
InitFailed_Logged(e) ==
  /\ pc' = "discover"
  /\ UNCHANGED <<errors, summary, thrown>>

\* initializeServices rethrows with its own prefix
InitFailed(e) == Catch(Wrap("Service initialization failed", e))


\* ----------------------------------------------------------------- actions
\* line 209: await supabaseClient.getAllTableNames()
InitializeSupabase ==
  /\ pc = "init_db"
  /\ \E d \in DbStates :
       LET r == GetAllTableNames(d)
       IN /\ dbCheck' = [checked |-> TRUE, db |-> d]
          /\ log' = Append(log, Event("getAllTableNames", 0))
          /\ IF r.error # NoError
             THEN InitFailed(r.error)
             ELSE /\ pc' = "init_drive"
                  /\ UNCHANGED <<errors, summary, thrown>>
  /\ UNCHANGED <<retryHandler, errorHandler, fileManager, exit, tables, config, now, oAuth2Client, transporter, disk, results,
                 exportResults, uploadResults, result, notified, unlinked>>

\* lines 212-231: loadTokens, setCredentials, initializeOAuthClient
InitializeDrive ==
  /\ pc = "init_drive"
  /\ \E tokens \in BOOLEAN, oauth \in {NoError, ErrApiKey} :
       /\ oAuth2Client' = tokens
       /\ log' = log \o <<Event("initializeOAuthClient", 0)>>
                     \o (IF ~tokens \/ oauth # NoError
                         THEN <<Event("init_failed", 0)>> ELSE <<>>)
       /\ IF ~tokens THEN InitFailed(ErrNoTokens)
          ELSE IF oauth # NoError
          THEN InitFailed(Wrap("OAuth initialization failed", oauth))
          ELSE /\ pc' = "init_email"
               /\ UNCHANGED <<errors, summary, thrown>>
  /\ UNCHANGED <<retryHandler, errorHandler, fileManager, exit, tables, config, now, dbCheck, transporter, disk, results,
                 exportResults, uploadResults, result, notified, unlinked>>

\* lines 233-236: EmailService.initializeFromEnv
InitializeEmail ==
  /\ pc = "init_email"
  /\ \E credentials \in BOOLEAN, verify \in {NoError, ErrSmtp} :
       /\ transporter' = credentials
       /\ log' = log \o <<Event("initializeFromEnv", 0)>>
                     \o (IF ~credentials \/ verify # NoError
                         THEN <<Event("init_failed", 0)>> ELSE <<>>)
       /\ IF ~credentials THEN InitFailed(ErrNoCredentials)
          ELSE IF verify # NoError
          THEN InitFailed(Wrap("Email service initialization failed", verify))
          ELSE /\ pc' = "discover"
               /\ UNCHANGED <<errors, summary, thrown>>
  /\ UNCHANGED <<retryHandler, errorHandler, fileManager, exit, tables, config, now, dbCheck, oAuth2Client, disk, results,
                 exportResults, uploadResults, result, notified, unlinked>>

\* the files deleted as soon as the summary is built, nobody notified
Aggregate_CleanupFirst(exports, uploads) ==
  LET errs == errors \o ProcessErrors(exports, uploads, 1)
  IN /\ errors' = errs
     /\ summary' = BuildSummary(exports, ProcessFileResults(exports, uploads), errs)
     /\ pc' = IF exports = <<>> THEN "notify" ELSE "cleanup"
     /\ thrown' = thrown

\* lines 86-142: the synchronous code that follows uploadFiles
Aggregate(exports, uploads) ==
  LET errs == errors \o ProcessErrors(exports, uploads, 1)
  IN /\ errors' = errs
     /\ summary' = BuildSummary(exports, ProcessFileResults(exports, uploads), errs)
     /\ pc' = "notify"
     /\ thrown' = thrown

\* exportData returns res: uploadFiles starts, and returns at once for no file
ExportDataReturns(res) ==
  /\ exportResults' = res
  /\ IF res = <<>>
     THEN Aggregate(res, <<>>)
     ELSE /\ pc' = "upload"
          /\ UNCHANGED <<errors, summary, thrown>>

\* line 254: await exporter.discoverDatabase(); the catch block of its loop
\* hands the failure of a table to handleDatabaseError
DiscoverDatabase ==
  /\ pc = "discover"
  /\ \E d \in DbStates :
       LET t == tables.discovery
           e == IF GetAllTableNames(d).error # NoError
                THEN GetAllTableNames(d).error ELSE TableLoop(t)
       IN /\ IF e # NoError
             THEN Catch(e) /\ UNCHANGED exportResults
             ELSE IF config.formats = <<>>
             THEN ExportDataReturns(<<>>)
             ELSE /\ pc' = "export"
                  /\ UNCHANGED <<exportResults, errors, summary, thrown>>
          /\ IF t # NoError
             THEN /\ HandleDatabaseErrorOf([shape |-> "error", error |-> t])
                  /\ log' = log \o <<Event("discoverDatabase", 0),
                                      Event(TableFailure(t), 0)>>
             ELSE /\ log' = Append(log, Event("discoverDatabase", 0))
                  /\ UNCHANGED <<errorLog, classified, handled>>
  /\ UNCHANGED <<retryHandler, clearedAt, asked, fileManager, exit, tables, config, now, dbCheck,
                 oAuth2Client, transporter, disk, results,
                 uploadResults, result, notified, unlinked>>

DiskWrite(d, path, length) ==
  {f \in d : f.path # path} \cup {[path |-> path, length |-> length]}

DiskRemove(d, path) == {f \in d : f.path # path}

OnDisk(d, path) == \E f \in d : f.path = path

LengthOnDisk(d, path) == (CHOOSE f \in d : f.path = path).length

\* the formats taken from the end of the list
NextFormat_Reversed(formats, done) == formats[Len(formats) - Len(done)]

\* line 256: for (const format of config.formats)
NextFormat(formats, done) == formats[Len(done) + 1]

\* the serializer, the compression or the write of the file failed
ExternalFailure(x) == x.gen # NoError \/ x.pack # NoError \/ x.save # NoError

\* lines 256-345: one iteration of the loop of exportData. A failed
\* per-table call reaches handleDatabaseError through exportAllTableData
\* (json, xlsx); generateSqlDump catches it itself
ExportFormat ==
  /\ pc = "export"
  /\ LET i == Len(results) + 1
         format == NextFormat(config.formats, results)
     IN \E s \in ExportScenarios :
          LET x == [s EXCEPT !.table = tables.export]
              e == ExportFormatError(format, x)
              r == ExportResult(format, config.compression, ContentOf(format), now)
              end == Event(IF ExternalFailure(x) THEN "export_failed"
                           ELSE "export_end", i)
          IN /\ IF x.table # NoError
                THEN log' = log \o <<Event("export_start", i),
                                     Event(TableFailure(x.table), i), end>>
                ELSE log' = log \o <<Event("export_start", i), end>>
             /\ IF x.table # NoError /\ format # "sql"
                THEN HandleDatabaseErrorOf([shape |-> "error", error |-> x.table])
                ELSE UNCHANGED <<errorLog, classified, handled>>
             /\ IF e # NoError
                THEN /\ Catch(e)
                     /\ UNCHANGED <<results, disk, exportResults>>
                ELSE /\ results' = Append(results, r)
                     /\ disk' = DiskWrite(disk, r.filePath, r.length)
                     /\ IF i = Len(config.formats)
                        THEN ExportDataReturns(Append(results, r))
                        ELSE /\ pc' = "export"
                             /\ UNCHANGED <<exportResults, errors, summary, thrown>>
  /\ UNCHANGED <<retryHandler, clearedAt, asked, fileManager, exit, tables, config, now, dbCheck,
                 oAuth2Client, transporter, uploadResults,
                 result, notified, unlinked>>

\* the upload loop without its catch block: a failure leaves uploadFiles
UploadFilesTry_NoCatch(r) ==
  IF r.ok
  THEN [entry |-> [success |-> TRUE, error |-> NoError, attempts |-> r.attempts],
        thrown |-> NoError]
  ELSE [entry |-> [success |-> FALSE, error |-> Wrap("Upload failed", r.error),
                   attempts |-> r.attempts],
        thrown |-> r.error]

\* lines 362-400: the try/catch around one upload: the entry pushed to
\* results and the error that leaves uploadFiles
UploadFilesTry(r) ==
  IF r.ok
  THEN [entry |-> [success |-> TRUE, error |-> NoError, attempts |-> r.attempts],
        thrown |-> NoError]
  ELSE [entry |-> [success |-> FALSE, error |-> Wrap("Upload failed", r.error),
                   attempts |-> r.attempts],
        thrown |-> NoError]

\* lines 361-403: one iteration of the loop of uploadFiles, Drive and the
\* filesystem behaving as u says
UploadStep(u) ==
  LET i == Len(uploadResults) + 1
      m == exportResults[i]
      r == IF u.read # NoError \/ ~OnDisk(disk, m.filePath)
           THEN [ok |-> FALSE, attempts |-> 0,
                 error |-> IF u.read # NoError THEN u.read ELSE ErrNoEntry]
           ELSE DriveUploadFile(u, oAuth2Client, LengthOnDisk(disk, m.filePath),
                                UploadOptions(config))
      t == UploadFilesTry(r)
  IN /\ log' = log \o <<Event("upload_start", i)>>
                   \o (IF OnDisk(disk, m.filePath)
                       THEN DriveEvents(u, oAuth2Client, UploadOptions(config), i)
                       ELSE <<>>)
                   \o <<Event("upload_end", i)>>
     /\ IF t.thrown # NoError
        THEN /\ Catch(t.thrown)
             /\ UNCHANGED uploadResults
        ELSE /\ uploadResults' = Append(uploadResults, t.entry)
             /\ IF i = Len(exportResults)
                THEN Aggregate(exportResults, Append(uploadResults, t.entry))
                ELSE /\ pc' = "upload"
                     /\ UNCHANGED <<errors, summary, thrown>>

\* lines 361-403: one iteration of the loop of uploadFiles
UploadFile ==
  /\ pc = "upload"
  /\ \E u \in UploadScenarios : UploadStep(u)
  /\ UNCHANGED <<retryHandler, errorHandler, fileManager, exit, tables, config, now, dbCheck, oAuth2Client, transporter, disk, results,
                 exportResults, result, notified, unlinked>>

Notified(s, r) ==
  [summary |-> s, calls |-> r.calls, sent |-> r.sent, logged |-> r.logged]

\* success only when every upload succeeded
Return_SuccessOnly ==
  /\ result' = [returned |-> TRUE, success |-> summary.status = "success",
                summary |-> summary, errors |-> errors]
  /\ pc' = "done"

\* the try block ending without a result handed back
Return_Unsettled ==
  /\ result' = result
  /\ pc' = "done"

\* lines 154-158
Return ==
  /\ result' = [returned |-> TRUE, success |-> summary.status # "failure",
                summary |-> summary, errors |-> errors]
  /\ pc' = "done"

\* line 145: await this.sendNotifications(summary, finalConfig.notifications)
Notify ==
  /\ pc = "notify"
  /\ \E smtp \in {NoError, ErrSmtp} :
       LET r == SendNotifications(summary.status, config.notifications, transporter, smtp)
       IN /\ notified' = Append(notified, Notified(summary, r))
          /\ log' = Append(log, Event("sendNotifications", 0))
          /\ IF r.thrown # NoError
             THEN Catch(r.thrown) /\ UNCHANGED result
             ELSE IF exportResults = <<>>
             THEN Return /\ UNCHANGED <<errors, summary, thrown>>
             ELSE /\ pc' = "cleanup"
                  /\ UNCHANGED <<errors, summary, thrown, result>>
  /\ UNCHANGED <<retryHandler, errorHandler, fileManager, exit, tables, config, now, dbCheck, oAuth2Client, transporter, disk, results,
                 exportResults, uploadResults, unlinked>>

\* cleanupFiles giving up at the first file it cannot delete
CleanupFile_StopsOnFailure ==
  /\ pc = "cleanup"
  /\ LET i == Len(unlinked) + 1
         path == exportResults[i].filePath
     IN \E fails \in BOOLEAN :
          /\ unlinked' = Append(unlinked, path)
          /\ log' = Append(log, Event("unlink", i))
          /\ disk' = IF fails THEN disk ELSE DiskRemove(disk, path)
          /\ IF i = Len(exportResults) \/ fails
             THEN Return
             ELSE pc' = "cleanup" /\ UNCHANGED result
  /\ UNCHANGED <<retryHandler, errorHandler, fileManager, exit, tables, config, now, dbCheck, oAuth2Client, transporter, results,
                 exportResults, uploadResults, errors, summary, thrown, notified>>

\* lines 443-450: one iteration of the loop of cleanupFiles
CleanupFile ==
  /\ pc = "cleanup"
  /\ LET i == Len(unlinked) + 1
         path == exportResults[i].filePath
     IN \E fails \in BOOLEAN :
          /\ unlinked' = Append(unlinked, path)
          /\ log' = Append(log, Event("unlink", i))
          /\ disk' = IF fails THEN disk ELSE DiskRemove(disk, path)
          /\ IF i = Len(exportResults)
             THEN Return
             ELSE pc' = "cleanup" /\ UNCHANGED result
  /\ UNCHANGED <<retryHandler, errorHandler, fileManager, exit, tables, config, now, dbCheck, oAuth2Client, transporter, results,
                 exportResults, uploadResults, errors, summary, thrown, notified>>

\* lines 185-196: the notification of the catch block, and its return
CatchNotify ==
  /\ pc = "catch_notify"
  /\ \E smtp \in {NoError, ErrSmtp} :
       LET r == SendNotifications(summary.status, config.notifications, transporter, smtp)
       IN /\ notified' = Append(notified, Notified(summary, r))
          /\ log' = Append(log, Event("sendNotifications", 0))
  /\ result' = [returned |-> TRUE, success |-> FALSE,
                summary |-> summary, errors |-> errors]
  /\ pc' = "done"
  /\ UNCHANGED <<retryHandler, errorHandler, fileManager, exit, tables, config, now, dbCheck, oAuth2Client, transporter, disk, results,
                 exportResults, uploadResults, errors, summary, thrown, unlinked>>

\* main, part_003 line 62: process.exit(result.success ? 0 : 1)
ProcessExit ==
  /\ pc = "done"
  /\ ~exit.exited
  /\ exit' = [exited |-> TRUE, code |-> IF result.success THEN 0 ELSE 1]
  /\ UNCHANGED <<retryHandler, errorHandler, fileManager, tables, config, now, dbCheck,
                 oAuth2Client, transporter, disk, results, exportResults,
                 uploadResults, errors, summary, result, thrown, notified,
                 unlinked, log, pc>>

Next ==
  \/ InitializeSupabase
  \/ InitializeDrive
  \/ InitializeEmail
  \/ DiscoverDatabase
  \/ ExportFormat
  \/ UploadFile
  \/ Notify
  \/ CleanupFile
  \/ CatchNotify
  \/ ProcessExit

Spec == Init /\ [][Next]_vars

\* every await of a run settles: the external call it waits for returns or
\* throws, so that the step that follows it is taken
LiveSpec == Spec /\ WF_vars(Next)

\* ------------------------------------------------------------- DriveSpec
\* the run of one format under every behaviour of Drive and of the filesystem
DriveRuns ==
  { r \in BackupRuns :
      /\ Len(r.config.formats) = 1
      /\ r.config.notifications = AllOn
      /\ r.tables = TablesSound }

DriveInit ==
  /\ pc = "init_db"
  /\ \E r \in DriveRuns : config = r.config /\ tables = r.tables
  /\ Fresh
  /\ RetryOff
  /\ ErrorHandlerInit
  /\ FileManagerOff

\* lines 361-403: one iteration of the loop of uploadFiles
UploadFileToDrive ==
  /\ pc = "upload"
  /\ \E u \in DriveScenarios : UploadStep(u)
  /\ UNCHANGED <<retryHandler, errorHandler, fileManager, exit, tables, config, now, dbCheck, oAuth2Client, transporter, disk, results,
                 exportResults, result, notified, unlinked>>

DriveNext ==
  \/ InitializeSupabase
  \/ InitializeDrive
  \/ InitializeEmail
  \/ DiscoverDatabase
  \/ ExportFormat
  \/ UploadFileToDrive
  \/ Notify
  \/ CleanupFile
  \/ CatchNotify
  \/ ProcessExit

DriveSpec == DriveInit /\ [][DriveNext]_vars


\* ===================================================== RetryHandler calls
\* the orchestrator when only a RetryHandler or ErrorHandler method is run
OrchestratorOff ==
  /\ pc = "off"
  /\ config = [formats |-> <<"sql", "json", "xlsx">>, compression |-> TRUE,
               notifications |-> [AllOn EXCEPT !.recipients = 0],
               retryAttempts |-> 3]
  /\ tables = TablesSound
  /\ Fresh

\* the calls of RetryHandler explored. timeout: the operation is wrapped by
\* withTimeout; label: the keywords in withTimeout's operationName; errors:
\* what the operation itself can throw
RetryCalls ==
  { [method |-> "executeWithRetry", operationName |-> "Operation",
     options |-> DefaultOptions(n), timeout |-> FALSE, label |-> {},
     errors |-> {ErrTimeoutKeyword, ErrTooManyRequests, ErrNotFound}]
      : n \in 0..MaxAttempts }
  \cup
  { \* a caller's maxDelay below the second delay of the defaults
    [method |-> "executeWithRetry", operationName |-> "Operation",
     options |-> [DefaultOptions(MaxAttempts) EXCEPT !.maxDelay = 1500],
     timeout |-> FALSE, label |-> {},
     errors |-> {ErrTimeoutKeyword, ErrNotFound}] }
  \cup
  { [method |-> "executeWithRetryAndTimeout", operationName |-> "Operation",
     options |-> DefaultOptions(n), timeout |-> TRUE, label |-> {},
     errors |-> {ErrConnectionReset, ErrNotFound}]
      : n \in 1..MaxAttempts }
  \cup
  { \* getTableData, getTableRowCount
    [method |-> "retryDatabaseOperation", operationName |-> "Get Table Data",
     options |-> DatabaseRetryOptions, timeout |-> TRUE, label |-> {},
     errors |-> {Wrap("Failed to get data from table", ErrRateLimit),
                 Wrap("Failed to get data from table", ErrApiKey)}],
    \* testConnection
    [method |-> "retryDatabaseOperation", operationName |-> "Database Connection Test",
     options |-> DatabaseRetryOptions, timeout |-> TRUE, label |-> {"connection"},
     errors |-> {MkError({"connection", "api key"}, "", 0)}],
    \* uploadFile
    [method |-> "retryGoogleDriveOperation", operationName |-> "Upload file",
     options |-> DriveRetryOptions, timeout |-> FALSE, label |-> {},
     errors |-> {ErrRateLimit, ErrNotFound}],
    [method |-> "retryEmailOperation", operationName |-> "Email Operation",
     options |-> EmailRetryOptions, timeout |-> FALSE, label |-> {},
     errors |-> {ErrAuthOverConnection, ErrTimeoutKeyword, ErrSmtp}] }

RetryInit ==
  /\ OrchestratorOff
  /\ ErrorHandlerInit
  /\ FileManagerOff
  /\ rpc = "loop"
  /\ call \in RetryCalls
  /\ RetryFrame

\* withTimeout, line 282: `${operationName} timed out after ${timeoutMs}ms`
TimeoutError(label) == MkError({"timed out"} \cup label, "", 0)

\* what the method called does with a failed RetryResult
Surface(c, r) ==
  CASE c.method = "executeWithRetry" -> NoError
    [] c.method = "executeWithRetryAndTimeout" -> Wrap(c.operationName \o " failed", r.error)
    [] OTHER -> FailedAfter(c.operationName, r.attempts, r.error)

\* the failed result reporting the attempts allowed, not those made
ReturnFailure_AttemptsAllowed(e) ==
  /\ rpc' = "returned"
  /\ retryResult' = [success |-> FALSE, error |-> e, attempts |-> call.options.maxAttempts]
  /\ surfaced' = Surface(call, [success |-> FALSE, error |-> e,
                                attempts |-> call.options.maxAttempts])

\* lines 109-117 and the throw of the method called
ReturnFailure(e) ==
  /\ rpc' = "returned"
  /\ retryResult' = [success |-> FALSE, error |-> e, attempts |-> attempt]
  /\ surfaced' = Surface(call, [success |-> FALSE, error |-> e, attempts |-> attempt])

\* the catch block going on to the sleep whatever the error is
Failed_NoBreak(e) ==
  /\ lastError' = e
  /\ outcomes' = Append(outcomes, e)
  /\ IF LastAttempt(call.options, attempt)
     THEN ReturnFailure(e) /\ UNCHANGED sleeps
     ELSE /\ sleeps' = Append(sleeps, BackoffDelay(call.options, attempt))
          /\ rpc' = "sleep"
          /\ UNCHANGED <<retryResult, surfaced>>

\* lines 80-106: the catch block of the loop
Failed(e) ==
  /\ lastError' = e
  /\ outcomes' = Append(outcomes, e)
  /\ IF ~RetryCondition(call.options, e)
     THEN ReturnFailure(e) /\ UNCHANGED sleeps
     ELSE IF LastAttempt(call.options, attempt)
     THEN ReturnFailure(e) /\ UNCHANGED sleeps
     ELSE /\ sleeps' = Append(sleeps, BackoffDelay(call.options, attempt))
          /\ rpc' = "sleep"
          /\ UNCHANGED <<retryResult, surfaced>>

\* lines 62-68: the loop condition holds and operation() is called
StartAttempt ==
  /\ rpc = "loop"
  /\ attempt < call.options.maxAttempts
  /\ attempt' = attempt + 1
  /\ invocations' = invocations + 1
  /\ running' = running \cup {attempt + 1}
  /\ rpc' = "await"
  /\ UNCHANGED <<orchestrator, errorHandler, fileManager, call, lastError, outcomes, timedOut,
                 sleeps, retryResult, surfaced>>

\* line 62: the loop condition fails
LoopExit ==
  /\ rpc = "loop"
  /\ ~(attempt < call.options.maxAttempts)
  /\ ReturnFailure(lastError)
  /\ UNCHANGED <<orchestrator, errorHandler, fileManager, call, attempt, lastError, invocations,
                 running, outcomes, timedOut, sleeps>>

\* lines 68-78: the operation resolves
OperationResolves ==
  /\ rpc = "await"
  /\ running' = running \ {attempt}
  /\ outcomes' = Append(outcomes, NoError)
  /\ retryResult' = [success |-> TRUE, error |-> NoError, attempts |-> attempt]
  /\ rpc' = "returned"
  /\ UNCHANGED <<orchestrator, errorHandler, fileManager, call, attempt, lastError, invocations,
                 timedOut, sleeps, surfaced>>

\* the operation rejects
OperationRejects ==
  /\ rpc = "await"
  /\ \E e \in call.errors : Failed(e)
  /\ running' = running \ {attempt}
  /\ UNCHANGED <<orchestrator, errorHandler, fileManager, call, attempt, invocations, timedOut>>

\* withTimeout, lines 279-284: the timer rejects the race; the operation it
\* raced against is not cancelled
TimerWins ==
  /\ rpc = "await"
  /\ call.timeout
  /\ Failed(TimeoutError(call.label))
  /\ timedOut' = timedOut \cup {attempt}
  /\ UNCHANGED <<orchestrator, errorHandler, fileManager, call, attempt, invocations, running>>

\* an operation that lost its race settles
AbandonedSettles ==
  /\ \E k \in running :
       /\ k \in timedOut
       /\ running' = running \ {k}
  /\ UNCHANGED <<orchestrator, errorHandler, fileManager, rpc, call, attempt, lastError, invocations,
                 outcomes, timedOut, sleeps, retryResult, surfaced>>

\* line 105: the sleep is over
WakeUp ==
  /\ rpc = "sleep"
  /\ rpc' = "loop"
  /\ UNCHANGED <<orchestrator, errorHandler, fileManager, call, attempt, lastError, invocations,
                 running, outcomes, timedOut, sleeps, retryResult, surfaced>>

RetryNext ==
  \/ StartAttempt
  \/ LoopExit
  \/ OperationResolves
  \/ OperationRejects
  \/ TimerWins
  \/ AbandonedSettles
  \/ WakeUp

RetrySpec == RetryInit /\ [][RetryNext]_vars


\* ===================================================== ErrorHandler calls
\* the messages, codes and statuses of the errors handed to handleDatabaseError:
\* one keyword of each kind, alone or in pairs
ClassifierKeywords ==
  {"connection", "authentication", "forbidden", "timed out", "rate limit", "constraint"}

ClassifierErrors ==
  { MkError(w, c, st) :
      w \in {x \in SUBSET ClassifierKeywords : Cardinality(x) <= 2},
      c \in {"", "ECONNRESET", "ETIMEDOUT"},
      st \in {0, 401, 403, 429} }

\* the values handleDatabaseError is called with: null, undefined, an object
\* with a string message or none (error.toString() is then read), an object
\* whose message is neither a string nor falsy
ClassifierInputs ==
  {[shape |-> "null", error |-> NoError], [shape |-> "undefined", error |-> NoError],
   [shape |-> "message_not_a_string", error |-> NoError]}
  \cup {[shape |-> "error", error |-> e] : e \in ClassifierErrors}

ErrorHandlerSpecInit ==
  /\ OrchestratorOff
  /\ RetryOff
  /\ ErrorHandlerInit
  /\ FileManagerOff

\* handleDatabaseError called with any value
HandleDatabaseError ==
  /\ classified < MaxCalls
  /\ \E v \in ClassifierInputs : HandleDatabaseErrorOf(v)
  /\ UNCHANGED <<orchestrator, retryHandler, fileManager, clearedAt, asked>>

\* clearErrorLog, lines 296-298
ClearErrorLog ==
  /\ errorLog # <<>>
  /\ errorLog' = <<>>
  /\ clearedAt' = classified
  /\ UNCHANGED <<orchestrator, retryHandler, fileManager, classified, handled, asked>>

ErrorHandlerNext ==
  \/ HandleDatabaseError
  \/ ClearErrorLog

ErrorHandlerSpec == ErrorHandlerSpecInit /\ [][ErrorHandlerNext]_vars


\* ================================================= a long-lived error log
\* handleDatabaseError called again and again by a long-lived process, more
\* often than the log has room for
HandleDatabaseErrorAgain ==
  /\ classified < ErrorLogLimit + MaxCalls
  /\ HandleDatabaseErrorOf([shape |-> "error", error |-> ErrNotFound])
  /\ UNCHANGED <<orchestrator, retryHandler, fileManager, clearedAt, asked>>

ErrorLogNext ==
  \/ HandleDatabaseErrorAgain
  \/ ClearErrorLog

ErrorLogSpec == ErrorHandlerSpecInit /\ [][ErrorLogNext]_vars


\* ========================================== shouldContinueOperation calls
\* the BackupError values of the type: every ErrorType with every ErrorSeverity
BackupErrors ==
  [type : {"CONNECTION_ERROR", "AUTHENTICATION_ERROR", "PERMISSION_ERROR",
           "DATA_ERROR", "TIMEOUT_ERROR", "RATE_LIMIT_ERROR", "STORAGE_ERROR",
           "VALIDATION_ERROR", "UNKNOWN_ERROR"},
   severity : {"LOW", "MEDIUM", "HIGH", "CRITICAL"},
   retryable : BOOLEAN]

\* shouldContinueOperation called with a BackupError built by the caller
ShouldContinueOperationCall ==
  /\ \E b \in BackupErrors :
       asked' = [called |-> TRUE, input |-> NoAsked.input, error |-> b,
                 answer |-> ShouldContinueOperation(b)]
  /\ UNCHANGED <<orchestrator, retryHandler, fileManager, errorLog, classified,
                 handled, clearedAt>>

\* exporter.ts lines 69-71 and 272-274: shouldContinueOperation called with
\* what classifyError made of a caught error
ShouldContinueClassified ==
  /\ \E v \in ClassifierInputs :
       /\ ~ToLowerCaseThrows(v)
       /\ asked' = [called |-> TRUE, input |-> v,
                    error |-> ClassifyError(MessageRead(v)),
                    answer |-> ShouldContinueOperation(ClassifyError(MessageRead(v)))]
  /\ UNCHANGED <<orchestrator, retryHandler, fileManager, errorLog, classified,
                 handled, clearedAt>>

ShouldContinueNext ==
  \/ ShouldContinueOperationCall
  \/ ShouldContinueClassified

ShouldContinueSpec == ErrorHandlerSpecInit /\ [][ShouldContinueNext]_vars


\* ======================================================= FileManager calls
\* the contents packaged: the exports of the three formats and a single byte
Contents == {ContentOf(f) : f \in Formats} \cup {[raw |-> 1, gz |-> 21, deflate |-> 9]}

\* CompressionOptions, lines 388-392
CompressionSettings ==
  [enabled : BOOLEAN, level : {1, 6, 9}, algorithm : {"gzip", "deflate"}]

FileManagerSpecInit ==
  /\ OrchestratorOff
  /\ RetryOff
  /\ ErrorHandlerInit
  /\ FileManagerOff

\* createBackupFile(content, baseName, format, compressionOptions)
CreateBackupFileCall ==
  /\ \E content \in Contents, format \in Formats, c \in CompressionSettings :
       backupFile' =
         [created |-> TRUE, compressionOptions |-> c,
          file |-> CreateBackupFile(content, "gym_database_backup", format, c,
                                    DefaultNamingOptions, [s |-> 0, ms |-> 0])]
  /\ validation' = NoValidation
  /\ UNCHANGED <<orchestrator, retryHandler, errorHandler, filenames>>

\* validateBackupFile(content, metadata) on what createBackupFile returned
ValidateBackupFileCall ==
  /\ backupFile.created
  /\ validation' =
       [validated |-> TRUE,
        result |-> ValidateBackupFile(backupFile.file.content, backupFile.file)]
  /\ UNCHANGED <<orchestrator, retryHandler, errorHandler, backupFile, filenames>>

FileManagerNext ==
  \/ CreateBackupFileCall
  \/ ValidateBackupFileCall

FileManagerSpec == FileManagerSpecInit /\ [][FileManagerNext]_vars


\* ================================================== generateFilename calls
\* FileNamingOptions: the defaults, and each field changed in turn
NamingOptions ==
  { DefaultNamingOptions,
    [DefaultNamingOptions EXCEPT !.includeTimestamp = FALSE],
    [DefaultNamingOptions EXCEPT !.includeFormat = FALSE],
    [DefaultNamingOptions EXCEPT !.includeCompression = FALSE],
    [DefaultNamingOptions EXCEPT !.timestampFormat = "yyyy-MM-dd_HH-mm-ss-SSS"],
    [DefaultNamingOptions EXCEPT !.separator = "-"] }

\* new Date(): two instants of one second and one of the next
Instants == {[s |-> 0, ms |-> 0], [s |-> 0, ms |-> 500], [s |-> 1, ms |-> 0]}

\* generateFilename(baseName, format, options, compressed) at some instant
GenerateFilenameCall ==
  /\ \E baseName \in {"gym_database_backup", "backup"}, format \in Formats,
        options \in NamingOptions, compressed \in BOOLEAN, instant \in Instants :
       filenames' =
         [previous |-> filenames.last,
          last |-> [called |-> TRUE, baseName |-> baseName, format |-> format,
                    options |-> options, compressed |-> compressed,
                    instant |-> instant,
                    name |-> GenerateFilename(baseName, format, options,
                                              compressed, instant)]]
  /\ UNCHANGED <<orchestrator, retryHandler, errorHandler, backupFile, validation>>

FilenameNext == GenerateFilenameCall

FilenameSpec == FileManagerSpecInit /\ [][FilenameNext]_vars


\* ================================================================== claims
Logged(ev, i) == \E k \in 1..Len(log) : log[k] = Event(ev, i)

LoggedAny(ev) == \E k \in 1..Len(log) : log[k].ev = ev

CountLogged(ev, i) == Cardinality({k \in 1..Len(log) : log[k] = Event(ev, i)})

Position(ev, i) == CHOOSE k \in 1..Len(log) : log[k] = Event(ev, i)

\* the run went through the catch block of executeBackup
Aborted == thrown # NoError

\* C1 as stated: in the returned summary status is success iff no upload
\* failed, failure iff no upload succeeded out of at least one file or the run
\* aborted before it produced an artifact, and partial otherwise.
C1_StatusAsStated ==
  result.returned =>
    LET s == result.summary
        failure == \/ s.successfulUploads = 0 /\ s.totalFiles > 0
                   \/ Aborted /\ results = <<>>
    IN /\ (s.status = "success") <=> (s.failedUploads = 0)
       /\ (s.status = "failure") <=> failure
       /\ (s.status = "partial") <=> (s.failedUploads # 0 /\ ~failure)

\* C1 amended: status is failure iff no upload succeeded out of at least one
\* file or the run aborted, whether or not artifacts had been produced;
\* success iff no upload failed and the run did not abort; partial otherwise,
\* and then at least one upload succeeded and at least one failed.
C1_StatusDerivation ==
  result.returned =>
    LET s == result.summary
        failure == (s.successfulUploads = 0 /\ s.totalFiles > 0) \/ Aborted
    IN /\ (s.status = "failure") <=> failure
       /\ (s.status = "success") <=> (s.failedUploads = 0 /\ ~Aborted)
       /\ (s.status = "partial") <=> (s.failedUploads # 0 /\ ~failure)
       /\ (s.status = "partial") => (s.successfulUploads > 0 /\ s.failedUploads > 0)
       /\ s.status \in {"success", "failure", "partial"}

\* a run that aborted in Exporting after an artifact was persisted has returned
C1_Witness ==
  /\ result.returned
  /\ Aborted
  /\ results # <<>>
  /\ result.summary.status = "failure"

\* C2: in every summary built, successfulUploads + failedUploads = totalFiles.
C2_CountsAddUp ==
  summary.status # "none" =>
    summary.successfulUploads + summary.failedUploads = summary.totalFiles

\* a returned summary of two files, one uploaded and one not
C2_Witness ==
  /\ result.returned
  /\ result.summary.totalFiles = 2
  /\ result.summary.successfulUploads = 1
  /\ result.summary.failedUploads = 1

\* C3: every artifact's upload is attempted exactly once and gets exactly one
\* outcome whatever the outcome of the uploads before it, and no upload
\* failure takes the run to the catch block.
C3_UploadFailuresIsolated ==
  /\ \A i \in 1..Len(uploadResults) :
       CountLogged("upload_start", i) = 1 /\ CountLogged("upload_end", i) = 1
  /\ \A i \in 1..Len(exportResults) :
       CountLogged("upload_start", i) = (IF i <= Len(uploadResults) THEN 1 ELSE 0)
  /\ pc \in {"notify", "cleanup", "done"} /\ ~Aborted =>
       Len(uploadResults) = Len(exportResults)
  /\ LoggedAny("upload_start") => ~Aborted /\ pc # "catch_notify"

\* the first upload failed after four attempts and the second was made
C3_Witness ==
  /\ Len(uploadResults) = 2
  /\ ~uploadResults[1].success
  /\ uploadResults[1].attempts = 4
  /\ Logged("upload_end", 2)

\* C4: once the serializer, the packaging or the write of the k-th format has
\* failed, the run is on the abort path: no later format is exported, no
\* upload is attempted, and the summary and the result are failures.
C4_ExportFailureAborts ==
  \A k \in 1..Len(config.formats) :
    Logged("export_failed", k) =>
      /\ pc \in {"catch_notify", "done"}
      /\ Aborted
      /\ \A j \in 1..Len(config.formats) : j > k => ~Logged("export_start", j)
      /\ ~LoggedAny("upload_start")
      /\ uploadResults = <<>>
      /\ summary.status = "failure"
      /\ result.returned => (~result.success /\ result.summary.status = "failure")

\* the second format failed after the first was persisted, and the run returned
C4_Witness ==
  /\ Logged("export_failed", 2)
  /\ Len(results) = 1
  /\ disk # {}
  /\ result.returned

\* C5: once a step of initializeServices has failed, nothing is exported or
\* uploaded, the summary is a failure with zero totals and sizes, and the
\* run returns after one sendNotifications call with that summary.
C5_InitFailureAborts ==
  Logged("init_failed", 0) =>
    /\ pc \in {"catch_notify", "done"}
    /\ ~LoggedAny("discoverDatabase")
    /\ ~LoggedAny("export_start")
    /\ ~LoggedAny("upload_start")
    /\ disk = {}
    /\ summary.status = "failure"
    /\ summary.totalFiles = 0
    /\ summary.successfulUploads = 0
    /\ summary.failedUploads = 0
    /\ summary.totalSize = 0
    /\ summary.compressedSize = 0
    /\ result.returned =>
         /\ result.summary = summary
         /\ Len(notified) = 1
         /\ notified[1].summary = result.summary

\* the run returned after a failed initialization
C5_Witness ==
  /\ Logged("init_failed", 0)
  /\ result.returned
  /\ Len(notified) = 1


\* C6 as stated: once the connectivity check of initializeServices has met a
\* database that rejects it, the run is on the abort path with a failure
\* summary of no file.
C6_DbCheckFailureAborts ==
  dbCheck.checked /\ dbCheck.db # DbUp =>
    /\ pc \in {"catch_notify", "done"}
    /\ Aborted
    /\ summary.status = "failure"
    /\ summary.totalFiles = 0

\* C7: the result returned is the one computed before sendNotifications was
\* called, whether the notifier then failed or not: same summary, same
\* errors, and success iff that summary's status is not failure.
C7_NotificationNeverMasks ==
  /\ pc = "done" <=> result.returned
  /\ result.returned =>
       /\ Len(notified) >= 1
       /\ result.summary = notified[1].summary
       /\ result.errors = notified[1].summary.errors
       /\ result.success = (notified[1].summary.status # "failure")

\* a run returned success although its notification failed
C7_Witness ==
  /\ result.returned
  /\ result.success
  /\ result.summary.status = "success"
  /\ result.summary.totalFiles > 0
  /\ notified[1].logged # NoError

\* C8: a run makes one sendNotifications call; with recipients it invokes
\* exactly the notifier method of the summary's status, a mail goes out only
\* if that status's switch is on, and without recipients no method is
\* invoked and no error is logged or added to the result.
C8_OneNotificationPath ==
  result.returned =>
    LET options == config.notifications
        status == result.summary.status
        n == notified[1]
    IN /\ Len(notified) = 1
       /\ options.recipients = 0 =>
            n.calls = <<>> /\ ~n.sent /\ n.logged = NoError
       /\ options.recipients # 0 =>
            /\ status = "success" => n.calls = <<"sendSuccessNotification">>
            /\ status = "partial" => n.calls = <<"sendPartialNotification">>
            /\ status = "failure" => n.calls = <<"sendFailureNotification">>
       /\ n.sent =>
            /\ status = "success" => options.sendOnSuccess
            /\ status = "partial" => options.sendOnPartial
            /\ status = "failure" => options.sendOnFailure
       /\ result.errors = n.summary.errors

\* a partial run sent its mail through sendPartialNotification
C8_Witness ==
  /\ result.returned
  /\ result.summary.status = "partial"
  /\ notified[1].calls = <<"sendPartialNotification">>
  /\ notified[1].sent

\* C9 as stated: when executeBackup returns, fs.unlink has been called for
\* every file that saveToLocal wrote, also on a run that aborted.
C9_EveryFileUnlinked ==
  result.returned =>
    \A i \in 1..Len(results) :
      \E k \in 1..Len(unlinked) : unlinked[k] = results[i].filePath

\* C10: on a run that did not abort, summary.files[i] joins the export result
\* and the upload outcome of config.formats[i], each export starts after the
\* one before it has ended, and each upload after the one before it has ended.
C10_OrderPreserved ==
  result.returned /\ ~Aborted =>
    LET files == result.summary.files
        n == Len(config.formats)
    IN /\ Len(files) = n
       /\ Len(exportResults) = n
       /\ Len(uploadResults) = n
       /\ \A i \in 1..n :
            /\ files[i].format = config.formats[i]
            /\ exportResults[i].format = config.formats[i]
            /\ files[i].filename = exportResults[i].filename
            /\ files[i].size = ContentOf(config.formats[i]).raw
            /\ (files[i].uploadStatus = "success") <=> uploadResults[i].success
            /\ files[i].error = uploadResults[i].error
            /\ Position("export_start", i) < Position("export_end", i)
            /\ Position("upload_start", i) < Position("upload_end", i)
       /\ \A i \in 2..n :
            /\ Position("export_end", i - 1) < Position("export_start", i)
            /\ Position("upload_end", i - 1) < Position("upload_start", i)

\* two different formats were exported and uploaded with different outcomes
C10_Witness ==
  /\ result.returned
  /\ ~Aborted
  /\ config.formats = <<"json", "sql">>
  /\ result.summary.files[1].uploadStatus = "failed"
  /\ result.summary.files[2].uploadStatus = "success"


\* the attempts so far all failed with an error the call's predicate accepts
AlwaysRetryableFailure ==
  \A i \in 1..Len(outcomes) :
    outcomes[i] # NoError /\ RetryCondition(call.options, outcomes[i])

\* C11: with maxAttempts = N >= 1, an operation that fails every time with an
\* error the retryability predicate accepts is never invoked more than N
\* times, and when executeWithRetry returns it has been invoked exactly N
\* times and the result has success = false and attempts = N.
C11_RetryExhaustion ==
  call.options.maxAttempts >= 1 /\ AlwaysRetryableFailure =>
    /\ invocations <= call.options.maxAttempts
    /\ rpc = "returned" =>
         /\ invocations = call.options.maxAttempts
         /\ ~retryResult.success
         /\ retryResult.attempts = call.options.maxAttempts

\* executeWithRetry with maxAttempts = 3 gave up after three retryable failures
C11_Witness ==
  /\ rpc = "returned"
  /\ call.method = "executeWithRetry"
  /\ call.options.maxAttempts = 3
  /\ AlwaysRetryableFailure
  /\ invocations = 3
  /\ retryResult.attempts = 3

\* C12: once attempt k has failed with an error the retryability predicate
\* rejects, executeWithRetry has returned success = false with attempts = k,
\* the operation has been invoked k times and never again, and the only
\* sleeps are the k - 1 that followed the earlier failures.
C12_NonRetryableStops ==
  \A k \in 1..Len(outcomes) :
    outcomes[k] # NoError /\ ~RetryCondition(call.options, outcomes[k]) =>
      /\ k = Len(outcomes)
      /\ rpc = "returned"
      /\ invocations = k
      /\ Len(sleeps) = k - 1
      /\ ~retryResult.success
      /\ retryResult.attempts = k
      /\ retryResult.error = outcomes[k]

\* a database call stopped at its second attempt, with one attempt left, on an
\* error that is not retryable
C12_Witness ==
  /\ rpc = "returned"
  /\ call.method = "retryDatabaseOperation"
  /\ Len(outcomes) = 2
  /\ RetryCondition(call.options, outcomes[1])
  /\ ~RetryCondition(call.options, outcomes[2])
  /\ invocations = 2
  /\ sleeps = <<2000>>

\* C13 as stated: at most one invocation of the retried operation is running
\* at any time, also when withTimeout's timer has won the race.
C13_OneInFlight == Cardinality(running) <= 1

\* C14 as stated: after the timer of withTimeout has won at an attempt that is
\* not the last allowed one, executeWithRetry does not give up at that attempt.
C14_TimeoutIsRetried ==
  \A k \in timedOut :
    k < call.options.maxAttempts => ~(rpc = "returned" /\ attempt = k)

\* C15 as stated: the error a method of RetryHandler throws for a failed
\* retry names the operation label and the attempt count, which is the number
\* of times the operation was invoked.
C15_SurfacedNamesLabelAndCount ==
  surfaced # NoError =>
    surfaced.prefix[1] =
      call.operationName \o " failed after " \o ToString(invocations) \o " attempts"

\* the message says authentication, invalid credentials, unauthorized or forbidden
IndicatesAuthFailure(e) ==
  e.words \cap {"authentication", "authentication failed", "invalid credentials",
                "unauthorized", "forbidden"} # {}

\* C16: under retryEmailOperation an attempt that fails with a message that
\* indicates an authentication or authorization failure is the last one, also
\* when the message holds a transient keyword; if it is the first attempt the
\* operation is invoked exactly once.
C16_AuthFailureNotRetried ==
  call.method = "retryEmailOperation" =>
    \A k \in 1..Len(outcomes) :
      IndicatesAuthFailure(outcomes[k]) =>
        /\ k = Len(outcomes)
        /\ rpc = "returned"
        /\ invocations = k
        /\ ~retryResult.success
        /\ surfaced # NoError

\* a mail operation failed once with an authentication error that also speaks
\* of the connection, and was not tried again
C16_Witness ==
  /\ call.method = "retryEmailOperation"
  /\ rpc = "returned"
  /\ outcomes = <<ErrAuthOverConnection>>
  /\ "connection" \in outcomes[1].words
  /\ invocations = 1

IsPrefix(s, t) == Len(s) <= Len(t) /\ \A i \in 1..Len(s) : s[i] = t[i]

\* C17: the database profile invokes the operation at most 3 times and waits
\* 2000 then 4000 ms, the Drive profile at most 4 times and waits 1000, 2000,
\* 4000 ms, the e-mail profile at most 3 times and waits 3000 then 6000 ms; no
\* wait exceeds 15000, 20000 and 10000 ms respectively.
C17_ProfileBounds ==
  /\ call.method = "retryDatabaseOperation" =>
       /\ invocations <= 3
       /\ IsPrefix(sleeps, <<2000, 4000>>)
       /\ \A i \in 1..Len(sleeps) : sleeps[i] <= 15000
  /\ call.method = "retryGoogleDriveOperation" =>
       /\ invocations <= 4
       /\ IsPrefix(sleeps, <<1000, 2000, 4000>>)
       /\ \A i \in 1..Len(sleeps) : sleeps[i] <= 20000
  /\ call.method = "retryEmailOperation" =>
       /\ invocations <= 3
       /\ IsPrefix(sleeps, <<3000, 6000>>)
       /\ \A i \in 1..Len(sleeps) : sleeps[i] <= 10000

\* a Drive operation used its four attempts and waited three times
C17_Witness ==
  /\ call.method = "retryGoogleDriveOperation"
  /\ rpc = "returned"
  /\ invocations = 4
  /\ sleeps = <<1000, 2000, 4000>>


ErrorTypes ==
  {"CONNECTION_ERROR", "AUTHENTICATION_ERROR", "PERMISSION_ERROR", "TIMEOUT_ERROR",
   "RATE_LIMIT_ERROR", "DATA_ERROR", "UNKNOWN_ERROR"}

\* handleDatabaseError has been called
Handled == handled.input.shape # "none"

\* C18 as stated: for every input value, null, undefined, an empty message, a
\* code alone or a status alone included, handleDatabaseError does not throw
\* and returns a BackupError of exactly one type.
C18_ClassifyTotal ==
  Handled => ~handled.threw /\ handled.backupError.type \in ErrorTypes

\* C19: the type is the first kind, in the order connection, authentication,
\* permission, timeout, rate limit, data, whose test the error passes, and
\* unknown when it passes none; an error whose only signal is HTTP 403 is an
\* authentication error.
C19_FirstMatchWins ==
  Handled /\ ~handled.threw =>
    LET e == MessageRead(handled.input)
        t == handled.backupError.type
        c1 == IsConnectionError(e)
        c2 == IsAuthenticationError(e)
        c3 == IsPermissionError(e)
        c4 == IsTimeoutError(e)
        c5 == IsRateLimitError(e)
        c6 == IsDataError(e)
    IN /\ (t = "CONNECTION_ERROR") <=> c1
       /\ (t = "AUTHENTICATION_ERROR") <=> (~c1 /\ c2)
       /\ (t = "PERMISSION_ERROR") <=> (~c1 /\ ~c2 /\ c3)
       /\ (t = "TIMEOUT_ERROR") <=> (~c1 /\ ~c2 /\ ~c3 /\ c4)
       /\ (t = "RATE_LIMIT_ERROR") <=> (~c1 /\ ~c2 /\ ~c3 /\ ~c4 /\ c5)
       /\ (t = "DATA_ERROR") <=> (~c1 /\ ~c2 /\ ~c3 /\ ~c4 /\ ~c5 /\ c6)
       /\ (t = "UNKNOWN_ERROR") <=> (~c1 /\ ~c2 /\ ~c3 /\ ~c4 /\ ~c5 /\ ~c6)
       /\ e = MkError({}, "", 403) => t = "AUTHENTICATION_ERROR"
       /\ e.words = {"connection", "authentication"} => t = "CONNECTION_ERROR"

\* an error whose only signal is HTTP 403 was classified
C19_Witness ==
  /\ Handled
  /\ ~handled.threw
  /\ handled.input.error = MkError({}, "", 403)
  /\ handled.backupError.type = "AUTHENTICATION_ERROR"

\* severity and retryability of a BackupError of each type
FixedPerKind(b) ==
  CASE b.type = "CONNECTION_ERROR" -> b.severity = "HIGH" /\ b.retryable
    [] b.type = "AUTHENTICATION_ERROR" -> b.severity = "CRITICAL" /\ ~b.retryable
    [] b.type = "PERMISSION_ERROR" -> b.severity = "HIGH" /\ ~b.retryable
    [] b.type = "TIMEOUT_ERROR" -> b.severity = "MEDIUM" /\ b.retryable
    [] b.type = "RATE_LIMIT_ERROR" -> b.severity = "MEDIUM" /\ b.retryable
    [] b.type = "DATA_ERROR" -> b.severity = "LOW" /\ ~b.retryable
    [] b.type = "UNKNOWN_ERROR" -> b.severity = "MEDIUM" /\ ~b.retryable
    [] OTHER -> FALSE

\* C20: every BackupError handleDatabaseError returns, and every entry of the
\* error log, has the severity and the retryability of its type: connection
\* high and retryable, authentication critical and not, permission high and
\* not, timeout medium and retryable, rate limit medium and retryable, data
\* low and not, unknown medium and not.
C20_SeverityFixedPerKind ==
  /\ Handled /\ ~handled.threw => FixedPerKind(handled.backupError)
  /\ \A i \in 1..Len(errorLog) : FixedPerKind(errorLog[i])

\* the log holds a timeout error followed by a data error
C20_Witness ==
  /\ Len(errorLog) = 2
  /\ errorLog[1].type = "TIMEOUT_ERROR"
  /\ errorLog[2].type = "DATA_ERROR"
  /\ handled.backupError = errorLog[2]


\* C21: shouldContinueOperation answers false for an error of severity
\* critical or of kind authentication or permission, and true for every other
\* error; for an error that classifyError built, it answers false exactly
\* when the kind is authentication or permission.
C21_ContinueDecision ==
  asked.called =>
    /\ asked.answer = ~(\/ asked.error.severity = "CRITICAL"
                        \/ asked.error.type \in {"AUTHENTICATION_ERROR",
                                                 "PERMISSION_ERROR"})
    /\ asked.input.shape # "none" =>
         (asked.answer = FALSE
            <=> asked.error.type \in {"AUTHENTICATION_ERROR", "PERMISSION_ERROR"})

C21_Witness ==
  /\ asked.called
  /\ asked.input.shape = "error"
  /\ asked.error.type = "PERMISSION_ERROR"
  /\ asked.error.severity = "HIGH"
  /\ asked.answer = FALSE


\* C22: the error log holds the min(n, 100) most recent entries, oldest
\* first, n being the number of classifications since the log was last
\* cleared (or since the start); its length never exceeds 100.
C22_LogBounded ==
  LET n == classified - clearedAt
  IN /\ Len(errorLog) = Min(n, ErrorLogLimit)
     /\ Len(errorLog) <= 100
     /\ \A i \in 1..Len(errorLog) :
          errorLog[i].timestamp = classified - Len(errorLog) + i

C22_Witness ==
  /\ classified - clearedAt > ErrorLogLimit
  /\ clearedAt > 0
  /\ Len(errorLog) = ErrorLogLimit
  /\ errorLog[1].timestamp = clearedAt + 2


\* C23: a per-table failure that classifies as continuable is swallowed and
\* the run goes on, and a per-table authentication or permission failure
\* aborts the run with status failure, in discovery and in the export of
\* every format.
C23_TableFailurePolicy ==
  result.returned =>
    /\ LoggedAny("table_call_unauthorized") =>
         Aborted /\ result.summary.status = "failure"
    /\ (/\ LoggedAny("table_call_failed")
        /\ ~LoggedAny("table_call_unauthorized")
        /\ ~LoggedAny("export_failed")) => ~Aborted


\* the entry of an errors list is about the error c: it carries c's message
Mentions(entry, c) == entry.error.words = c.words /\ entry.error.words # {}

\* C24: an error that handleDatabaseError classified during the run (here the
\* one classified last, which the run may have skipped over) has an entry in
\* the errors list of the returned summary.
C24_ClassifiedErrorsInSummary ==
  (result.returned /\ Handled /\ ~handled.threw) =>
    \E k \in 1..Len(result.summary.errors) :
      Mentions(result.summary.errors[k], handled.input.error)


\* the files whose upload failed, and the k-th of them in artifact order
FailedUploads == {i \in 1..Len(uploadResults) : ~uploadResults[i].success}

NthFailed(k) ==
  CHOOSE i \in FailedUploads : Cardinality({j \in FailedUploads : j <= i}) = k

\* C25: when the run returns without having aborted, the errors list of its
\* summary has one entry per failed upload, in the order of the artifacts,
\* and the k-th entry carries the filename of the k-th artifact whose upload
\* failed together with that upload's error.
C25_OneErrorPerFailedUpload ==
  (result.returned /\ ~Aborted) =>
    LET errs == result.summary.errors
    IN /\ Len(errs) = Cardinality(FailedUploads)
       /\ \A k \in 1..Len(errs) :
            /\ errs[k].file = exportResults[NthFailed(k)].filename
            /\ errs[k].error =
                 Wrap("Upload failed for", uploadResults[NthFailed(k)].error)

\* the sql and the json artifact both failed to upload, the second one after
\* its retries on a rate limit were used up
C25_Witness ==
  /\ result.returned
  /\ ~Aborted
  /\ config.formats = <<"sql", "json">>
  /\ FailedUploads = {1, 2}
  /\ uploadResults[2].attempts = 4
  /\ Len(result.summary.errors) = 2
  /\ result.summary.errors[2].file.format = "json"


\* C26: an upload that kept failing on a retryable error (a rate limit) until
\* its retries were used up was attempted config.retryAttempts times.
C26_RetryAttemptsConfigured ==
  \A i \in 1..Len(uploadResults) :
    (~uploadResults[i].success /\ Includes(uploadResults[i].error, "rate limit"))
      => uploadResults[i].attempts = config.retryAttempts


\* C27: the result returned has success true exactly when the status of its
\* summary is success or partial, and the process exits with code 0 exactly
\* when the result's success is true.
C27_ExitSignal ==
  /\ result.returned =>
       (result.success <=> result.summary.status \in {"success", "partial"})
  /\ exit.exited =>
       /\ result.returned
       /\ exit.code = 0 <=> result.success

\* a partial run exited with code 0
C27_Witness ==
  /\ exit.exited
  /\ exit.code = 0
  /\ result.summary.status = "partial"
  /\ result.summary.failedUploads = 1


\* C28: the xlsx artifact is never compressed, whatever config.compression
\* is: compressed is false, there is no compressedSize, and the filename has
\* neither the compressed tag nor the .gz suffix; a sql or json artifact is
\* compressed exactly when config.compression is set.
C28_XlsxNeverCompressed ==
  \A i \in 1..Len(results) :
    LET r == results[i]
    IN /\ r.format = "xlsx" =>
            /\ ~r.compressed
            /\ r.compressedSize = 0
            /\ ~r.filename.tag
            /\ ~r.filename.gz
       /\ r.format \in {"sql", "json"} =>
            /\ r.compressed <=> config.compression
            /\ r.filename.gz <=> config.compression

C28_Witness ==
  /\ config.compression
  /\ Len(results) = 2
  /\ results[1].format = "json" /\ results[1].compressed
  /\ results[2].format = "xlsx" /\ ~results[2].compressed
  /\ result.returned


\* C29: validateBackupFile, given the content and the metadata that
\* createBackupFile returned for a non-empty input, answers valid with an
\* empty errors list, for every format and every compression setting.
C29_ChecksumRoundTrip ==
  validation.validated =>
    /\ validation.result.valid
    /\ validation.result.errors = <<>>

\* the two calls were made with the same arguments
SameInputs(a, b) ==
  /\ a.called /\ b.called
  /\ a.baseName = b.baseName
  /\ a.format = b.format
  /\ a.options = b.options
  /\ a.compressed = b.compressed

C31_BackoffDiscipline ==
  /\ Len(sleeps) <= Len(outcomes)
  /\ \A k \in 1..Len(outcomes) :
       (k <= Len(sleeps)) <=>
         /\ outcomes[k] # NoError
         /\ RetryCondition(call.options, outcomes[k])
         /\ k < call.options.maxAttempts
  /\ \A k \in 1..Len(sleeps) :
       LET d == call.options.baseDelay * Pow(call.options.exponentialBase, k - 1)
       IN sleeps[k] = IF d <= call.options.maxDelay THEN d
                      ELSE call.options.maxDelay

\* two retryable failures under a maxDelay of 1500: the second sleep is capped,
\* and the third attempt, the last allowed, is followed by none
C31_Witness ==
  /\ rpc = "returned"
  /\ call.options.maxDelay = 1500
  /\ call.options.maxAttempts = 3
  /\ Len(outcomes) = 3
  /\ AlwaysRetryableFailure
  /\ sleeps = <<1000, 1500>>

\* the events of the log at which ev was logged
Positions(ev) == {k \in 1..Len(log) : log[k].ev = ev}

\* C32: the stages of a run follow one another in the order initializing, exporting, uploading, aggregating, notifying, cleaning up, done: an upload starts only when every requested format has been exported and its file written, the notification is dispatched only when every upload outcome is recorded, a local file is deleted only after the notification call has returned, and a run that went through the catch block left from initialization or export, having started no upload, notified once and deleted nothing.
C32_StageOrder ==
  /\ \A u \in Positions("upload_start") :
       /\ Len(results) = Len(config.formats)
       /\ exportResults = results
       /\ \A f \in 1..Len(config.formats) :
            /\ Logged("export_end", f)
            /\ Position("export_end", f) < u
       /\ \A i \in Positions("getAllTableNames") \cup Positions("initializeOAuthClient")
                    \cup Positions("initializeFromEnv") \cup Positions("discoverDatabase") :
            i < u
  /\ pc = "upload" => \A k \in 1..Len(exportResults) : OnDisk(disk, exportResults[k].filePath)
  /\ \A e \in Positions("export_start") :
       \A i \in Positions("getAllTableNames") \cup Positions("initializeOAuthClient")
                 \cup Positions("initializeFromEnv") \cup Positions("discoverDatabase") :
         i < e
  /\ ~Aborted =>
       \A n \in Positions("sendNotifications") :
         /\ Len(results) = Len(config.formats)
         /\ Len(uploadResults) = Len(exportResults)
         /\ summary.totalFiles = Len(uploadResults)
         /\ \A u \in Positions("upload_start") \cup Positions("upload_end")
                       \cup Positions("export_start") \cup Positions("discoverDatabase") :
              u < n
  /\ \A d \in Positions("unlink") :
       /\ Len(notified) = 1
       /\ \E n \in Positions("sendNotifications") : n < d
       /\ \A u \in Positions("upload_end") : u < d
  /\ Cardinality(Positions("sendNotifications")) <= 1
  /\ result.returned => pc = "done" /\ Len(notified) = 1
  /\ Aborted =>
       /\ Positions("upload_start") = {}
       /\ Positions("unlink") = {}
       /\ uploadResults = <<>>
       /\ pc \in {"catch_notify", "done"}

\* a run of two formats went through every stage and returned
C32_Witness ==
  /\ result.returned
  /\ ~Aborted
  /\ Len(config.formats) = 2
  /\ Cardinality(Positions("upload_start")) = 2
  /\ Cardinality(Positions("unlink")) = 2
  /\ notified[1].sent

\* C33: cleanup is best effort: once the deletions have begun the run is not on the abort path and its summary and errors stay those handed to the notifier, and when the run returns fs.unlink has been called for every exported file in order, whichever of the calls failed, and the result is the one that summary alone determines.
C33_CleanupBestEffort ==
  /\ (pc = "cleanup" \/ unlinked # <<>>) =>
       /\ ~Aborted
       /\ Len(notified) = 1
       /\ summary = notified[1].summary
       /\ errors = notified[1].summary.errors
       /\ Len(unlinked) <= Len(exportResults)
       /\ pc = "cleanup" <=> Len(unlinked) < Len(exportResults)
  /\ (result.returned /\ ~Aborted) =>
       /\ Len(unlinked) = Len(exportResults)
       /\ \A i \in 1..Len(exportResults) : unlinked[i] = exportResults[i].filePath
       /\ result.summary = notified[1].summary
       /\ result.errors = notified[1].summary.errors
       /\ result.success = (notified[1].summary.status # "failure")

\* the first file could not be deleted, the second was deleted after it, and
\* the run returned success
C33_Witness ==
  /\ result.returned
  /\ result.success
  /\ result.summary.status = "success"
  /\ result.errors = <<>>
  /\ Len(exportResults) = 2
  /\ Len(unlinked) = 2
  /\ exportResults[1].filePath # exportResults[2].filePath
  /\ OnDisk(disk, exportResults[1].filePath)
  /\ ~OnDisk(disk, exportResults[2].filePath)

\* C34 as stated: a run that aborted in the export stage, the discovery of the database that precedes the loop over the formats included, hands executeBackup an error whose message begins with the name of a requested format, in upper case, followed by "export failed"; for a failure inside the loop the name is that of the format being exported.
C34_FormatNameAttached ==
  (Aborted /\ LoggedAny("discoverDatabase")) =>
    /\ thrown.prefix # <<>>
    /\ \E f \in Formats : thrown.prefix[1] = ToUpperCase(f) \o " export failed"
    /\ LoggedAny("export_start") =>
         thrown.prefix[1] = ToUpperCase(config.formats[Len(results) + 1]) \o " export failed"

\* the invocations at which the loop of executeWithRetry stops: a success, a
\* failure the retryability predicate rejects, or the last attempt allowed
StopsAt(k) ==
  \/ outcomes[k] = NoError
  \/ ~RetryCondition(call.options, outcomes[k])
  \/ k = call.options.maxAttempts

\* C35: with maxAttempts >= 1 the operation is never invoked after it has succeeded nor more than maxAttempts times, and when executeWithRetry returns, result.attempts is the number of invocations made, which is the least of the index of the first success, the index of the first failure the retryability predicate rejects, and maxAttempts; success is true exactly when the last invocation succeeded, and a failed result carries the error of the last invocation.
C35_AttemptAccounting ==
  call.options.maxAttempts >= 1 =>
    /\ invocations <= call.options.maxAttempts
    /\ Len(outcomes) <= invocations
    /\ \A k \in 1..Len(outcomes) :
         outcomes[k] = NoError => (k = Len(outcomes) /\ invocations = k /\ rpc = "returned")
    /\ rpc = "returned" =>
         LET n == Len(outcomes)
         IN /\ n >= 1
            /\ invocations = n
            /\ retryResult.attempts = invocations
            /\ StopsAt(n)
            /\ \A k \in 1..(n - 1) : ~StopsAt(k)
            /\ retryResult.success <=> outcomes[n] = NoError
            /\ ~retryResult.success => retryResult.error = outcomes[n]

\* the second of three allowed invocations succeeded after a retryable failure
C35_Witness ==
  /\ rpc = "returned"
  /\ call.options.maxAttempts = 3
  /\ Len(outcomes) = 2
  /\ outcomes[1] # NoError
  /\ outcomes[2] = NoError
  /\ invocations = 2
  /\ retryResult.success
  /\ retryResult.attempts = 2

\* C36: a run that aborted in the export loop after one or more files had been packaged and written returns a summary with totalFiles = 0, no files, zero sizes and compressionRatio = 1, and an errors list of exactly one entry, the "Backup process failed" message of the error thrown: the files already written appear nowhere in the result.
C36_AbortSummaryOmitsArtifacts ==
  (result.returned /\ Aborted /\ Len(results) >= 1) =>
    /\ ~result.success
    /\ result.summary.status = "failure"
    /\ result.summary.totalFiles = 0
    /\ result.summary.files = <<>>
    /\ result.summary.successfulUploads = 0
    /\ result.summary.failedUploads = 0
    /\ result.summary.totalSize = 0
    /\ result.summary.compressedSize = 0
    /\ result.summary.compressionRatio = <<1, 1>>
    /\ Len(result.errors) = 1
    /\ result.errors[1] = [file |-> NoFile, error |-> Wrap("Backup process failed", thrown)]
    /\ result.summary.errors = result.errors

\* the second format failed; the file of the first is on disk and of a
\* positive size
C36_Witness ==
  /\ result.returned
  /\ Aborted
  /\ Len(results) = 1
  /\ OnDisk(disk, results[1].filePath)
  /\ results[1].size > 0
  /\ result.summary.totalFiles = 0

\* C37: a run whose initialization failed before EmailService.initializeFromEnv was called has no mail transport: its one sendNotifications call sends no mail, and when the call reaches sendEmail (recipients configured, failure notifications on) sendEmail throws "Email service not initialized", which sendNotifications logs and does not rethrow, so that the run returns the failure of the initialization alone.
C37_NoMailBeforeTransport ==
  (Logged("init_failed", 0) /\ ~LoggedAny("initializeFromEnv")) =>
    /\ ~transporter
    /\ Aborted
    /\ \A n \in 1..Len(notified) :
         /\ ~notified[n].sent
         /\ notified[n].summary.status = "failure"
         /\ (config.notifications.recipients # 0 /\ config.notifications.sendOnFailure) =>
              /\ notified[n].calls = <<"sendFailureNotification">>
              /\ notified[n].logged = ErrNoTransporter
    /\ result.returned =>
         /\ Len(notified) = 1
         /\ ~result.success
         /\ Len(result.errors) = 1
         /\ thrown.prefix[1] = "Service initialization failed"
         /\ result.errors[1].error = Wrap("Backup process failed", thrown)

\* the OAuth tokens were missing; the failure notification was attempted and
\* ended in sendEmail's "Email service not initialized"
C37_Witness ==
  /\ result.returned
  /\ Logged("init_failed", 0)
  /\ ~LoggedAny("initializeFromEnv")
  /\ notified[1].calls = <<"sendFailureNotification">>
  /\ notified[1].logged = ErrNoTransporter
  /\ ~notified[1].sent

\* C38: the outcome recorded for an artifact is a success only if the retried files.create call succeeded and the verification found the remote size equal to the byte length of the local file; when files.create succeeded and the verification could not read the remote file or found another size, the outcome recorded is a failure carrying the verification's error, and the file is counted as failed in the summary.
C38_SuccessMeansVerified ==
  \A i \in 1..Len(uploadResults) :
    /\ uploadResults[i].success =>
         /\ Logged("files.create_ok", i)
         /\ Logged("size_match", i)
    /\ (Logged("files.create_ok", i)
          /\ (Logged("files.get_failed", i) \/ Logged("size_mismatch", i))) =>
         /\ ~uploadResults[i].success
         /\ Len(uploadResults[i].error.prefix) >= 3
         /\ uploadResults[i].error.prefix[3] = "Upload verification failed"
         /\ summary.status # "none" => summary.files[i].uploadStatus = "failed"

\* files.create succeeded at its second attempt, the remote file is one byte
\* short, and the run returned a failure
C38_Witness ==
  /\ result.returned
  /\ Len(uploadResults) = 1
  /\ Logged("files.create_ok", 1)
  /\ Logged("size_mismatch", 1)
  /\ uploadResults[1].attempts = 2
  /\ ~uploadResults[1].success
  /\ result.summary.failedUploads = 1

\* C39: with an empty formats list, once initialization and discovery have succeeded, the run exports nothing, writes and uploads nothing, and returns success with status = success, totalFiles = successfulUploads = failedUploads = 0, zero sizes, compressionRatio = 1 and no errors, after one sendNotifications call with that summary which, when recipients are configured, invokes sendSuccessNotification and no other method.
C39_EmptyFormats ==
  (config.formats = <<>> /\ LoggedAny("discoverDatabase") /\ ~Aborted) =>
    /\ pc \in {"notify", "done"}
    /\ ~LoggedAny("export_start")
    /\ ~LoggedAny("upload_start")
    /\ ~LoggedAny("unlink")
    /\ results = <<>> /\ exportResults = <<>> /\ uploadResults = <<>>
    /\ disk = {}
    /\ summary.status = "success"
    /\ summary.totalFiles = 0
    /\ summary.successfulUploads = 0
    /\ summary.failedUploads = 0
    /\ summary.totalSize = 0
    /\ summary.compressedSize = 0
    /\ summary.compressionRatio = <<1, 1>>
    /\ summary.files = <<>>
    /\ summary.errors = <<>>
    /\ result.returned =>
         /\ result.success
         /\ result.summary = summary
         /\ result.errors = <<>>
         /\ Len(notified) = 1
         /\ notified[1].summary = summary
         /\ config.notifications.recipients # 0 =>
              notified[1].calls = <<"sendSuccessNotification">>
         /\ notified[1].sent => config.notifications.sendOnSuccess

\* the run of no format returned success and its mail went out
C39_Witness ==
  /\ config.formats = <<>>
  /\ result.returned
  /\ result.success
  /\ result.summary.totalFiles = 0
  /\ result.summary.compressionRatio = <<1, 1>>
  /\ notified[1].calls = <<"sendSuccessNotification">>
  /\ notified[1].sent

\* C40: provided every external call returns or throws, a run of executeBackup ends, for every configuration and every pattern of failures of the database, the filesystem, Drive and the mail transport, by returning a BackupResult, which it keeps from then on.
C40_Terminates == <>[](result.returned /\ pc = "done")

\* a run of two formats that met a failed upload and a failed deletion returned
C40_Witness ==
  /\ result.returned
  /\ pc = "done"
  /\ Len(config.formats) = MaxFormats
  /\ Len(unlinked) = MaxFormats
  /\ result.summary.failedUploads >= 1
  /\ disk # {}

====
